---- MODULE Spec2Model ----
(***************************************************************************)
(* A model of CycleSampler's Sampler<AmbDim,Real,Int> (src/src/Sampler.hpp).*)
(*                                                                         *)
(* Three specifications share this module:                                 *)
(*   Spec      one worker that reuses one Sampler W for a block of         *)
(*             samples: Optimize() step by step, then the driver's writes. *)
(*   SpecCtor  construction and the Read... setters of one Sampler.        *)
(*   SpecBatch the worker threads of OptimizeBatch, RandomClosedPolygons   *)
(*             and Sample_Binned, interleaved.                             *)
(*                                                                         *)
(* Reals are exact rationals [n, d].  The values that come out of the      *)
(* floating-point geometry (the residual of the shifted directions, the    *)
(* smallest eigenvalue, the potential, the slope) are inputs drawn from    *)
(* small sets; every decision the code takes on them is computed as the    *)
(* code computes it.  The contents of x, w, y are recorded by provenance:  *)
(* which sample, which update of w.                                        *)
(***************************************************************************)
EXTENDS Integers, Sequences, FiniteSets, TLC

\* ------------------------------------------------------------ bounds
\* largest settings.max_iter tried
MaxIter == 2
\* largest settings.max_backtrackings tried
MaxBT == 2
\* samples in the block of the worker of Spec
MaxSamples == 2
\* ambient dimension of the arrays of SpecCtor and SpecBatch
AmbDim == 2
\* edge count of the arrays of SpecCtor and SpecBatch
EdgeCount == 2
\* largest sample_count of SpecBatch
MaxS == 3
\* largest thread_count of SpecBatch
MaxT == 3
\* largest edge length / rho entry of SpecCtor
MaxLen == 3
\* largest value an entry of bins_out and moments_out holds at entry
MaxPrior == 1
\* largest sample count of the Sample_Binned call of SpecBinned
MaxRep == 1
\* largest bin_count_ and moment_count_ a caller passes
MaxBins == 2
MaxMoments == 3
\* fun_count: random variables in F_list_
FunCount == 1
\* largest value std::random_device returns
MaxEntropy == 1
\* largest entry of the matrix handed to Cholesky()
MaxEntry == 2
\* the ambient dimension of the Sampler whose quotient-space correction is computed
SigmaDim == 3
\* largest rho_k
MaxRho == 2

\* ------------------------------------------------------------ rationals
RECURSIVE Gcd(_, _)
Gcd(a, b) == IF b = 0 THEN a ELSE Gcd(b, a % b)

Abs(a) == IF a < 0 THEN -a ELSE a

\* the rational n/d in lowest terms, d > 0
R(n, d) ==
    LET g == Gcd(Abs(n), Abs(d))
        s == IF d < 0 THEN -1 ELSE 1
    IN  IF g = 0 THEN [n |-> 0, d |-> 0] ELSE [n |-> s * (n \div g), d |-> s * (d \div g)]

RAdd(a, b) == R(a.n * b.d + b.n * a.d, a.d * b.d)
RSub(a, b) == R(a.n * b.d - b.n * a.d, a.d * b.d)
RMul(a, b) == R(a.n * b.n, a.d * b.d)
RDiv(a, b) == R(a.n * b.d, a.d * b.n)
RNeg(a)    == [n |-> -a.n, d |-> a.d]
RLess(a, b) == a.n * b.d < b.n * a.d
RLeq(a, b)  == a.n * b.d <= b.n * a.d
\* std::max(a, b) is (a < b) ? b : a
RMax(a, b) == IF RLess(a, b) THEN b ELSE a

\* ------------------------------------------------------------ constants of Sampler
zero  == R(0, 1)
half  == R(1, 2)
one   == R(1, 1)
two   == R(2, 1)
four  == R(4, 1)
\* std::numeric_limits<Real>::min() and ::max(): a value below, and one above,
\* every other value of the model
eps   == R(1, 1000000)
infty == R(1000000, 1)
big_one  == RAdd(one, RMul(R(16, 1), eps))
g_factor == R(4, 1)
hundred  == R(100, 1)

\* ------------------------------------------------------------ state
VARIABLES
    \* ---- Spec: the Sampler W of one worker and the driver around it
    settings,         \* Setting_T of the Sampler
    pc,               \* where the worker is
    k,                \* sample index of the driver loop
    x,                \* x_buffer: the sample whose initial directions it holds
    w,                \* shift vector: [s: sample, ver: number of updates]
    y,                \* y_buffer: [x, w] it was shifted from
    FH,               \* F and DF: the y they were assembled from
    iter,
    residual,
    lambda_min,
    q,
    errorestimator,
    linesearchQ,
    succeededQ,
    continueQ,
    ArmijoQ,
    tau,              \* locals of LineSearch_Hyperbolic_Potential
    backtrackings,
    phi_tau,
    Dphi_0,
    tried,            \* [tau, phi] of every step size whose potential the line search evaluated
    w_out,            \* output arrays of the driver, by sample
    y_out,
    passes,           \* line searches taken by the current Optimize() call
    armijo_evals,     \* Armijo predicates evaluated by the current call
    exits,            \* by sample: how Optimize() left its loop
    \* ---- SpecCtor: the buffers a constructor and the setters fill
    r,                \* edge lengths
    rho,              \* quotient-space weights
    total_r_inv,
    made_by,          \* the constructor call: [ctor, r_in, rho_in, fresh]
    \* ---- SpecBatch: the worker threads of one batch call
    op,               \* the batch operation
    sample_count,
    thread_count,
    job_ptr,          \* JobPointers( sample_count, thread_count )
    tpc,              \* by thread: where it is
    tk,               \* by thread: loop variable
    k_end,            \* by thread: end of its loop
    written,          \* by output array and element: the threads that wrote it
    proc,             \* by sample index: [by: the threads that processed it, n: how often]
    sb_local,         \* Sample_Binned, by thread: samples added to its local tensors
    sb_global,        \* Sample_Binned: samples reduced into the shared tensors
    sb_bins_local,    \* Sample_Binned, by thread: samples added to a bin of bins_local
    sb_bins_global,   \* Sample_Binned: bins_global
    sb_prior,         \* Sample_Binned: [bins, moments] the caller's arrays held at entry
    sb_tmp,           \* by thread: the value add_to_buffer has loaded
    lock,             \* the thread inside #pragma omp critical, or NoThread
    reduced,          \* by thread: add_to_buffer pairs it has finished
    sb_out,           \* Sample_Binned: [bins, moments] of the caller's arrays, done
    failures,         \* samples whose Optimize() did not report success
    \* ---- SpecShift: the initial directions and the shift vector of one Sampler
    x_buffer,         \* by edge: the unit vector x(k,.)
    w_vec,            \* w[AmbDim], or NoVec before it is first written
    shift_call,       \* the last call: [name, w_in]
    \* ---- SpecBinned: one Sample_Binned call on one thread, then the normalisation
    bin_count_,       \* arguments of the call
    moment_count_,
    ranges,           \* [lo, hi] of every functional
    repetitions,      \* samples the call draws
    bphase,           \* "loop", "returned"
    rep_done,         \* repetitions finished
    smp,              \* the last sample: [val, K, K_quot, outcome, bin_idx]
    bins_local,       \* Tensor3 ( 3, fun_count, bin_count ), by flat index
    moments_local,    \* Tensor3 ( 3, fun_count, moment_count ), by flat index
    bins_out,         \* the caller's arrays, by flat index
    moments_out,
    oob,              \* flat indices of moments touched outside the caller's array
    norm_count,       \* NormalizeBinnedSamples calls made
    \* ---- SpecRng: two runs of RandomSphericalPoints on several threads
    root_seed,        \* the seed the caller fixed for both runs
    rs_samples,       \* sample_count
    rs_threads,       \* thread_count
    rs_run,           \* the run under way: 1, 2; 3 when both returned
    rs_done,          \* threads of the run that finished their block
    rs_out,           \* by run and sample: [seed, n] the engine and the draw behind it
    rs_written,       \* by run and position [sample, edge] of x_out: times it was written
    \* ---- SpecChol: Cholesky() and CholeskySolve() at the end of the search direction
    chol_A,           \* A[i][j], j >= i: a rational, or NonFinite
    chol_k,           \* the loop variable k of Cholesky()
    chol_failed,      \* a pivot A[k][k] <= 0 has been met
    chol_u,           \* u: "rhs" before CholeskySolve(), then "finite" or "nonfinite"
    \* ---- SpecSigma: ComputeEdgeQuotientSpaceSamplingCorrection() in dimension >= 3
    sg_rho,           \* rho, by edge 0 .. edge_count - 1
    sg_y,             \* y_buffer, by edge: the vector y(k,.)
    sg_A,             \* A[j][i], j >= i
    sg_k,             \* the loop variable k
    sg_phase,         \* "first", "loop", "done"
    \* ---- SpecEig: SmallestEigenvalue() in two solver states with the same DF
    ev_dim,           \* AmbDim of the Sampler
    ev_DF,            \* DF[i][j], j >= i, in twelfths
    ev_A,             \* by solver state: the scratch matrix A[i][j], j >= i, in twelfths
    ev_done,          \* the solver states whose SmallestEigenvalue() has returned
    ev_lam,           \* by solver state: the value returned
    \* ---- SpecFlow: the loop over the samples of one worker of Sample_Binned
    fl_rep,           \* repetitions
    fl_funs,          \* fun_count
    fl_pc,            \* the statement the worker is at
    fl_k,             \* the loop variable k
    fl_i,             \* the loop variable i
    fl_x,             \* x_buffer of W: the sample it was drawn for
    fl_w,             \* w of W: [s, ver]
    fl_y,             \* y_buffer of W: [x, w]
    fl_p,             \* p of W: the y it was computed from
    fl_K,             \* edge_space_sampling_weight of W: [x, w, y]
    fl_chi,           \* edge_quotient_space_sampling_correction of W: the y
    fl_loc,           \* the locals [K, K_quot, val]
    fl_rec,           \* what has been added to bins_local and moments_local
    \* ---- SpecCast: the Sample_Binned overload that takes RandomVariableBase pointers
    cs_list,          \* F_list_: by element, whether the downcast to RandomVariable_T succeeds
    cs_samples,       \* sample_count
    cs_i,             \* the loop variable i
    cs_pc,            \* "cast", "tag", "check", "call", "returned", "crashed"
    cs_ptr,           \* F_list__[i]: "null", "object", or "unset"
    cs_null_deref,    \* a null F_list__[i] has been dereferenced
    cs_elided,        \* the build dropped the test of a pointer it had dereferenced
    cs_reported,      \* eprint(...) has been called
    cs_called         \* the overload that samples has been called

solverVars == << settings, pc, k, x, w, y, FH, iter, residual, lambda_min, q,
                 errorestimator, linesearchQ, succeededQ, continueQ, ArmijoQ,
                 tau, backtrackings, phi_tau, Dphi_0, tried, w_out, y_out, passes,
                 armijo_evals, exits >>

ctorVars  == << r, rho, total_r_inv, made_by >>
sbVars    == << sb_local, sb_global, sb_bins_local, sb_bins_global, sb_prior, sb_tmp,
                lock, reduced, sb_out >>
batchVars == << op, sample_count, thread_count, job_ptr, tpc, tk, k_end, written,
                proc, sbVars, failures >>

\* the variables of the specifications of single routines (below)
shiftVars  == << x_buffer, w_vec, shift_call >>
binVars    == << bin_count_, moment_count_, ranges, repetitions, bphase, rep_done, smp,
                 bins_local, moments_local, bins_out, moments_out, oob, norm_count >>
rngVars    == << root_seed, rs_samples, rs_threads, rs_run, rs_done, rs_out, rs_written >>
cholVars   == << chol_A, chol_k, chol_failed, chol_u >>
sigmaVars  == << sg_rho, sg_y, sg_A, sg_k, sg_phase >>
eigVars    == << ev_dim, ev_DF, ev_A, ev_done, ev_lam >>
flowVars   == << fl_rep, fl_funs, fl_pc, fl_k, fl_i, fl_x, fl_w, fl_y, fl_p, fl_K, fl_chi,
                 fl_loc, fl_rec >>
castVars   == << cs_list, cs_samples, cs_i, cs_pc, cs_ptr, cs_null_deref, cs_elided,
                 cs_reported, cs_called >>
kernelVars == << shiftVars, binVars, rngVars, cholVars, sigmaVars, eigVars, flowVars,
                 castVars >>

\* what the actions of one of these specifications leave alone
otherThanShift  == << solverVars, ctorVars, batchVars, binVars, rngVars, cholVars, sigmaVars, eigVars, flowVars,
                      castVars >>
otherThanBinned == << solverVars, ctorVars, batchVars, shiftVars, rngVars, cholVars, sigmaVars, eigVars, flowVars,
                      castVars >>
otherThanRng    == << solverVars, ctorVars, batchVars, shiftVars, binVars, cholVars, sigmaVars, eigVars, flowVars,
                      castVars >>
otherThanSigma  == << solverVars, ctorVars, batchVars, shiftVars, binVars, rngVars, cholVars, eigVars, flowVars,
                      castVars >>
otherThanEig    == << solverVars, ctorVars, batchVars, shiftVars, binVars, rngVars, cholVars,
                      sigmaVars, flowVars,
                      castVars >>
otherThanFlow   == << solverVars, ctorVars, batchVars, shiftVars, binVars, rngVars, cholVars,
                      sigmaVars, eigVars,
                      castVars >>
otherThanCast   == << solverVars, ctorVars, batchVars, shiftVars, binVars, rngVars, cholVars,
                      sigmaVars, eigVars, flowVars >>
otherThanChol   == << solverVars, ctorVars, batchVars, shiftVars, binVars, rngVars, sigmaVars, eigVars, flowVars,
                      castVars >>

vars == << solverVars, ctorVars, batchVars, kernelVars >>

\* ------------------------------------------------------------ inputs of Spec
SettingsSet ==
    [ max_iter             : 0 .. MaxIter,
      max_backtrackings    : 0 .. MaxBT,
      tolerance            : { R(1, 200) },
      give_up_tolerance    : { R(1, 2000), R(3, 4) },
      Armijo_slope_factor  : { R(0, 1), R(1, 2) },
      Armijo_shrink_factor : { R(1, 4) },
      use_linesearch       : BOOLEAN ]

\* residuals || sum_k r_k y_k || / R the shifted directions can have (0 < . <= 1)
ResSet  == { R(1, 1000), R(1, 16), R(5, 8) }
\* smallest eigenvalues of H = I - sum_k r_k y_k y_k^T / R (0 < . < 1)
LamSet  == { R(1, 100), R(2, 3) }
\* values of the potential at a tangent step
PhiSet  == { R(-1, 1), R(-1, 4), R(-1, 8), R(1, 1) }
\* slopes g_factor * <F, u> of a descent direction u
DphiSet == { R(-1, 1) }

NoW == [s |-> -1, ver |-> 0]
NoY == [x |-> -1, w |-> NoW]
NoExit == [iter |-> -1, capped |-> FALSE]
Samples == 0 .. MaxSamples - 1

\* ------------------------------------------------------------ Sampler
\* ShiftMap::Shift( x_buffer, w, y_buffer, ... ): y is the shift of x by w
Shift(x_, w_) == [x |-> x_, w |-> w_]

\* InverseShift(): w <- ( a z + b w ) / c, one more update of w
InverseShift(w_) == [s |-> w_.s, ver |-> w_.ver + 1]

\* ComputeShiftVector(): w <- sum_k r_k x_k / R of the current x
ComputeShiftVector(x_) == [s |-> x_, ver |-> 0]

\* the Armijo predicate phi_tau - sigma * tau * Dphi_0 < 0
Armijo(phi, tau_, dphi) ==
    RLess(RSub(phi, RMul(RMul(settings.Armijo_slope_factor, tau_), dphi)), zero)

\* Backtrack without the quadratic fit
Backtrack_ShrinkOnly(tau_, phi, dphi) == RMul(settings.Armijo_shrink_factor, tau_)

\* the back-tracking step: tau <- max( gamma tau, -sigma tau^2 Dphi_0 / (2 (phi_tau - tau Dphi_0)) )
Backtrack(tau_, phi, dphi) ==
    LET gamma == settings.Armijo_shrink_factor
        sigma == settings.Armijo_slope_factor
        tau_1 == RMul(gamma, tau_)
        tau_2 == RDiv( RNeg(RMul(RMul(RMul(RMul(half, sigma), tau_), tau_), dphi)),
                       RSub(phi, RMul(tau_, dphi)) )
    IN  RMax(tau_1, tau_2)

\* BacktrackGuard with the cap off by one
BacktrackGuard_OffByOne(armijo, bt) == ~armijo /\ bt + 1 < settings.max_backtrackings

\* guard of the back-tracking loop
BacktrackGuard(armijo, bt) == ~armijo /\ bt < settings.max_backtrackings

\* LoopGuard with <= for <
LoopGuard_Inclusive(iter_, cont) == iter_ <= settings.max_iter /\ cont

\* guard of the main loop of Optimize()
LoopGuard(iter_, cont) == iter_ < settings.max_iter /\ cont

\* the first test of SearchDirection_Hyperbolic
KantorovichRegime(res) == RLess(res, RMul(hundred, settings.tolerance))

\* SearchDirection_Decision with tolerance for give_up_tolerance in the branch q >= 1
SearchDirection_Decision_WrongTol(res, lam, succ) ==
    IF KantorovichRegime(res)
    THEN LET q_ == RDiv(RMul(four, res), RMul(lam, lam))
         IN  IF RLess(q_, one)
             THEN LET est  == RMul(RMul(half, lam), q_)
                      cont == RLess(settings.tolerance, est)
                  IN  [ lambda_min |-> lam, q |-> q_, errorestimator |-> est,
                        linesearchQ |-> FALSE, continueQ |-> cont, succeededQ |-> ~cont ]
             ELSE [ lambda_min |-> lam, q |-> q_, errorestimator |-> infty,
                    linesearchQ |-> RLess(zero, settings.Armijo_slope_factor),
                    continueQ |-> RLess(settings.tolerance, res),
                    succeededQ |-> succ ]
    ELSE [ lambda_min |-> eps, q |-> big_one, errorestimator |-> infty,
           linesearchQ |-> RLess(zero, settings.Armijo_slope_factor),
           continueQ |-> RLess(RMax(settings.give_up_tolerance, settings.tolerance), res),
           succeededQ |-> succ ]

\* SearchDirection_Decision that leaves the line search on in the branch q < 1
SearchDirection_Decision_KeepLineSearch(res, lam, succ) ==
    IF KantorovichRegime(res)
    THEN LET q_ == RDiv(RMul(four, res), RMul(lam, lam))
         IN  IF RLess(q_, one)
             THEN LET est  == RMul(RMul(half, lam), q_)
                      cont == RLess(settings.tolerance, est)
                  IN  [ lambda_min |-> lam, q |-> q_, errorestimator |-> est,
                        linesearchQ |-> RLess(zero, settings.Armijo_slope_factor),
                        continueQ |-> cont, succeededQ |-> ~cont ]
             ELSE [ lambda_min |-> lam, q |-> q_, errorestimator |-> infty,
                    linesearchQ |-> RLess(zero, settings.Armijo_slope_factor),
                    continueQ |-> RLess(settings.give_up_tolerance, res),
                    succeededQ |-> succ ]
    ELSE [ lambda_min |-> eps, q |-> big_one, errorestimator |-> infty,
           linesearchQ |-> RLess(zero, settings.Armijo_slope_factor),
           continueQ |-> RLess(RMax(settings.give_up_tolerance, settings.tolerance), res),
           succeededQ |-> succ ]

\* the decisions of SearchDirection_Hyperbolic on the residual res, with lam the
\* value of SmallestEigenvalue() and succ the flag succeededQ before the call
SearchDirection_Decision(res, lam, succ) ==
    IF KantorovichRegime(res)
    THEN LET q_ == RDiv(RMul(four, res), RMul(lam, lam))
         IN  IF RLess(q_, one)
             THEN LET est  == RMul(RMul(half, lam), q_)
                      cont == RLess(settings.tolerance, est)
                  IN  [ lambda_min |-> lam, q |-> q_, errorestimator |-> est,
                        linesearchQ |-> FALSE, continueQ |-> cont, succeededQ |-> ~cont ]
             ELSE [ lambda_min |-> lam, q |-> q_, errorestimator |-> infty,
                    linesearchQ |-> RLess(zero, settings.Armijo_slope_factor),
                    continueQ |-> RLess(settings.give_up_tolerance, res),
                    succeededQ |-> succ ]
    ELSE [ lambda_min |-> eps, q |-> big_one, errorestimator |-> infty,
           linesearchQ |-> RLess(zero, settings.Armijo_slope_factor),
           continueQ |-> RLess(RMax(settings.give_up_tolerance, settings.tolerance), res),
           succeededQ |-> succ ]

\* ------------------------------------------------------------ Spec: one worker
\* Sampler W( edge_count, settings ): the member initialisers; w, y, F, DF are
\* not initialised
SolverInit(sset) ==
    /\ settings \in sset
    /\ pc = "idle"
    /\ k = 0
    /\ x = -1
    /\ w = NoW
    /\ y = NoY
    /\ FH = NoY
    /\ iter = 0
    /\ residual = one
    /\ lambda_min = eps
    /\ q = one
    /\ errorestimator = infty
    /\ linesearchQ = TRUE
    /\ succeededQ = FALSE
    /\ continueQ = TRUE
    /\ ArmijoQ = FALSE
    /\ tau = zero
    /\ backtrackings = 0
    /\ phi_tau = zero
    /\ Dphi_0 = zero
    /\ tried = {}
    /\ w_out = [j \in Samples |-> NoW]
    /\ y_out = [j \in Samples |-> NoY]
    /\ passes = 0
    /\ armijo_evals = 0
    /\ exits = [j \in Samples |-> NoExit]

\* the variables of SpecCtor, when another specification runs
CtorIdle ==
    /\ r = << >>
    /\ rho = << >>
    /\ total_r_inv = one
    /\ made_by = [ctor |-> 0, r_in |-> << >>, rho_in |-> << >>, fresh |-> FALSE]

\* the variables of SpecBatch, when another specification runs
BatchIdle ==
    /\ op = "none"
    /\ sample_count = 0
    /\ thread_count = 0
    /\ job_ptr = << >>
    /\ tpc = << >>
    /\ tk = << >>
    /\ k_end = << >>
    /\ written = << >>
    /\ proc = << >>
    /\ sb_local = << >>
    /\ sb_global = 0
    /\ sb_bins_local = << >>
    /\ sb_bins_global = 0
    /\ sb_prior = [bins |-> 0, moments |-> 0]
    /\ sb_tmp = << >>
    /\ lock = -1
    /\ reduced = << >>
    /\ sb_out = [bins |-> 0, moments |-> 0, done |-> FALSE]
    /\ failures = 0

\* the variables of SpecShift, when another specification runs
ShiftIdle ==
    /\ x_buffer = << >>
    /\ w_vec = << >>
    /\ shift_call = [name |-> "none", w_in |-> << >>]

\* the variables of SpecBinned, when another specification runs
BinnedIdle ==
    /\ bin_count_ = 0
    /\ moment_count_ = 0
    /\ ranges = [lo |-> 0, hi |-> 0]
    /\ repetitions = 0
    /\ bphase = "none"
    /\ rep_done = 0
    /\ smp = << >>
    /\ bins_local = << >>
    /\ moments_local = << >>
    /\ bins_out = << >>
    /\ moments_out = << >>
    /\ oob = {}
    /\ norm_count = 0

\* the variables of SpecRng, when another specification runs
RngIdle ==
    /\ root_seed = 0
    /\ rs_samples = 0
    /\ rs_threads = 0
    /\ rs_run = 0
    /\ rs_done = {}
    /\ rs_out = << >>
    /\ rs_written = << >>

\* the variables of SpecChol, when another specification runs
CholIdle ==
    /\ chol_A = << >>
    /\ chol_k = 0
    /\ chol_failed = FALSE
    /\ chol_u = "none"

\* the variables of SpecSigma, when another specification runs
SigmaIdle ==
    /\ sg_rho = << >>
    /\ sg_y = << >>
    /\ sg_A = << >>
    /\ sg_k = 0
    /\ sg_phase = "none"

\* the variables of SpecEig, when another specification runs
EigIdle ==
    /\ ev_dim = 0
    /\ ev_DF = << >>
    /\ ev_A = << >>
    /\ ev_done = {}
    /\ ev_lam = << >>

\* the variables of SpecFlow, when another specification runs
FlowIdle ==
    /\ fl_rep = 0
    /\ fl_funs = 0
    /\ fl_pc = "none"
    /\ fl_k = 0
    /\ fl_i = 0
    /\ fl_x = -1
    /\ fl_w = NoW
    /\ fl_y = NoY
    /\ fl_p = NoY
    /\ fl_K = [x |-> -1, w |-> NoW, y |-> NoY]
    /\ fl_chi = NoY
    /\ fl_loc = << >>
    /\ fl_rec = {}

\* the variables of SpecCast, when another specification runs
CastIdle ==
    /\ cs_list = << >>
    /\ cs_samples = 0
    /\ cs_i = 0
    /\ cs_pc = "none"
    /\ cs_ptr = "unset"
    /\ cs_null_deref = FALSE
    /\ cs_elided = FALSE
    /\ cs_reported = FALSE
    /\ cs_called = FALSE

KernelIdle ==
    ShiftIdle /\ BinnedIdle /\ RngIdle /\ CholIdle /\ SigmaIdle /\ EigIdle /\ FlowIdle /\ CastIdle

Init == SolverInit(SettingsSet) /\ CtorIdle /\ BatchIdle /\ KernelIdle

lsLocals == << tau, backtrackings, phi_tau, Dphi_0, tried >>
flags    == << residual, lambda_min, q, errorestimator, linesearchQ, succeededQ, continueQ >>
outputs  == << w_out, y_out >>

\* the driver loop of OptimizeBatch: ReadInitialEdgeCoordinates( x_in, k ) and
\* ComputeShiftVector()
Driver_ReadSample ==
    /\ pc = "idle"
    /\ k < MaxSamples
    /\ x' = k
    /\ w' = ComputeShiftVector(k)
    /\ pc' = "optimize"
    /\ UNCHANGED << settings, k, y, FH, iter, flags, ArmijoQ, lsLocals, outputs,
                    passes, armijo_evals, exits >>
    /\ UNCHANGED << ctorVars, batchVars, kernelVars >>

\* Optimize(): iter = 0; Shift()
Optimize_Enter ==
    /\ pc = "optimize"
    /\ iter' = 0
    /\ y' = Shift(x, w)
    /\ passes' = 0
    /\ armijo_evals' = 0
    /\ pc' = "diffhess"
    /\ UNCHANGED << settings, k, x, w, FH, flags, ArmijoQ, lsLocals, outputs, exits >>
    /\ UNCHANGED << ctorVars, batchVars, kernelVars >>

\* DifferentialAndHessian_Hyperbolic(): F, DF and the residual of the current y
DifferentialAndHessian_Hyperbolic ==
    /\ pc = "diffhess"
    /\ \E res \in ResSet : residual' = res
    /\ FH' = y
    /\ pc' = "searchdir"
    /\ UNCHANGED << settings, k, x, w, y, iter, lambda_min, q, errorestimator,
                    linesearchQ, succeededQ, continueQ, ArmijoQ, lsLocals, outputs,
                    passes, armijo_evals, exits >>
    /\ UNCHANGED << ctorVars, batchVars, kernelVars >>

\* SearchDirection_Hyperbolic(): the decisions, then u from the Cholesky solve
SearchDirection_Hyperbolic ==
    /\ pc = "searchdir"
    /\ \E lam \in (IF KantorovichRegime(residual) THEN LamSet ELSE {eps}) :
         LET dec == SearchDirection_Decision(residual, lam, succeededQ)
         IN  /\ lambda_min' = dec.lambda_min
             /\ q' = dec.q
             /\ errorestimator' = dec.errorestimator
             /\ linesearchQ' = dec.linesearchQ
             /\ continueQ' = dec.continueQ
             /\ succeededQ' = dec.succeededQ
    /\ pc' = "loop"
    /\ UNCHANGED << settings, k, x, w, y, FH, iter, residual, ArmijoQ, lsLocals,
                    outputs, passes, armijo_evals, exits >>
    /\ UNCHANGED << ctorVars, batchVars, kernelVars >>

\* while( ( iter < max_iter ) && continueQ ) { ++iter; ...
Optimize_Loop ==
    /\ pc = "loop"
    /\ LoopGuard(iter, continueQ)
    /\ iter' = iter + 1
    /\ pc' = "linesearch"
    /\ UNCHANGED << settings, k, x, w, y, FH, flags, ArmijoQ, lsLocals, outputs,
                    passes, armijo_evals, exits >>
    /\ UNCHANGED << ctorVars, batchVars, kernelVars >>

\* ... } return
Optimize_Return ==
    /\ pc = "loop"
    /\ ~LoopGuard(iter, continueQ)
    /\ exits' = [exits EXCEPT ![k] = [iter |-> iter, capped |-> continueQ]]
    /\ pc' = "returned"
    /\ UNCHANGED << settings, k, x, w, y, FH, iter, flags, ArmijoQ, lsLocals,
                    outputs, passes, armijo_evals >>
    /\ UNCHANGED << ctorVars, batchVars, kernelVars >>

\* LineSearch_Hyperbolic_Potential(): tau = 1, z from tau; with linesearchQ the slope, the
\* potential and the first Armijo test
LineSearch_Begin ==
    /\ pc = "linesearch"
    /\ passes' = passes + 1
    /\ tau' = one
    /\ IF linesearchQ
       THEN /\ \E dphi \in DphiSet, phi \in PhiSet :
                 /\ Dphi_0' = dphi
                 /\ phi_tau' = phi
                 /\ ArmijoQ' = Armijo(phi, one, dphi)
                 /\ tried' = { [tau |-> one, phi |-> phi] }
            /\ backtrackings' = 0
            /\ armijo_evals' = armijo_evals + 1
            /\ pc' = "ls_loop"
       ELSE /\ pc' = "ls_update"
            /\ UNCHANGED << Dphi_0, phi_tau, ArmijoQ, backtrackings, tried, armijo_evals >>
    /\ UNCHANGED << settings, k, x, w, y, FH, iter, flags, outputs, exits >>
    /\ UNCHANGED << ctorVars, batchVars, kernelVars >>

\* one pass of while( !ArmijoQ && (backtrackings < max_backtrackings) )
LineSearch_Backtrack ==
    /\ pc = "ls_loop"
    /\ BacktrackGuard(ArmijoQ, backtrackings)
    /\ backtrackings' = backtrackings + 1
    /\ LET tau_new == Backtrack(tau, phi_tau, Dphi_0)
       IN  /\ tau' = tau_new
           /\ \E phi \in PhiSet :
                /\ phi_tau' = phi
                /\ ArmijoQ' = Armijo(phi, tau_new, Dphi_0)
                /\ tried' = tried \cup { [tau |-> tau_new, phi |-> phi] }
    /\ armijo_evals' = armijo_evals + 1
    /\ UNCHANGED << settings, pc, k, x, w, y, FH, iter, flags, Dphi_0, outputs,
                    passes, exits >>
    /\ UNCHANGED << ctorVars, batchVars, kernelVars >>

\* the back-tracking loop ends
LineSearch_Exit ==
    /\ pc = "ls_loop"
    /\ ~BacktrackGuard(ArmijoQ, backtrackings)
    /\ pc' = "ls_update"
    /\ UNCHANGED << settings, k, x, w, y, FH, iter, flags, ArmijoQ, lsLocals,
                    outputs, passes, armijo_evals, exits >>
    /\ UNCHANGED << ctorVars, batchVars, kernelVars >>

\* LineSearch_Update without the re-shift
LineSearch_Update_NoShift ==
    /\ pc = "ls_update"
    /\ w' = InverseShift(w)
    /\ tau' = zero
    /\ backtrackings' = 0
    /\ phi_tau' = zero
    /\ Dphi_0' = zero
    /\ tried' = {}
    /\ pc' = "diffhess"
    /\ UNCHANGED << settings, k, x, y, FH, iter, flags, ArmijoQ, outputs, passes,
                    armijo_evals, exits >>
    /\ UNCHANGED << ctorVars, batchVars, kernelVars >>

\* InverseShift(); Shift(); and the locals of the line search go out of scope
LineSearch_Update ==
    /\ pc = "ls_update"
    /\ w' = InverseShift(w)
    /\ y' = Shift(x, w')
    /\ tau' = zero
    /\ backtrackings' = 0
    /\ phi_tau' = zero
    /\ Dphi_0' = zero
    /\ tried' = {}
    /\ pc' = "diffhess"
    /\ UNCHANGED << settings, k, x, FH, iter, flags, ArmijoQ, outputs, passes,
                    armijo_evals, exits >>
    /\ UNCHANGED << ctorVars, batchVars, kernelVars >>

\* Driver_Write that drops the sample when the iteration cap ended the loop
Driver_Write_DropCapped ==
    /\ pc = "returned"
    /\ w_out' = IF continueQ THEN w_out ELSE [w_out EXCEPT ![k] = w]
    /\ y_out' = IF continueQ THEN y_out ELSE [y_out EXCEPT ![k] = y]
    /\ k' = k + 1
    /\ pc' = "idle"
    /\ UNCHANGED << settings, x, w, y, FH, iter, flags, ArmijoQ, lsLocals, passes,
                    armijo_evals, exits >>
    /\ UNCHANGED << ctorVars, batchVars, kernelVars >>

\* the driver loop of OptimizeBatch: WriteShiftVector( w_out, k ),
\* WriteEdgeCoordinates( y_out, k ), ++k
Driver_Write ==
    /\ pc = "returned"
    /\ w_out' = [w_out EXCEPT ![k] = w]
    /\ y_out' = [y_out EXCEPT ![k] = y]
    /\ k' = k + 1
    /\ pc' = "idle"
    /\ UNCHANGED << settings, x, w, y, FH, iter, flags, ArmijoQ, lsLocals, passes,
                    armijo_evals, exits >>
    /\ UNCHANGED << ctorVars, batchVars, kernelVars >>

Next ==
    \/ Driver_ReadSample
    \/ Optimize_Enter
    \/ DifferentialAndHessian_Hyperbolic
    \/ SearchDirection_Hyperbolic
    \/ Optimize_Loop
    \/ Optimize_Return
    \/ LineSearch_Begin
    \/ LineSearch_Backtrack
    \/ LineSearch_Exit
    \/ LineSearch_Update
    \/ Driver_Write

Spec == Init /\ [][Next]_vars

\* ------------------------------------------------------------ SpecCtor
Edges == 1 .. EdgeCount
\* the arrays r_in, rho_in a caller passes
LenSeqs == [Edges -> 1 .. MaxLen]

RECURSIVE SumTo(_, _)
\* sum += r[i] for i < n
SumTo(f, n) == IF n = 0 THEN zero ELSE RAdd(SumTo(f, n - 1), f[n])

\* copy_buffer( in, out, edge_count ) of an array of reals
CopyBuffer(in) == [i \in Edges |-> R(in[i], 1)]

\* ReadEdgeLengths( r_in ): the copy and total_r_inv = one / sum
ReadEdgeLengths_r(r_in) == CopyBuffer(r_in)
ReadEdgeLengths_total_r_inv(r_in) == RDiv(one, SumTo(CopyBuffer(r_in), EdgeCount))

\* ReadRho( rho_in )
ReadRho_rho(rho_in) == CopyBuffer(rho_in)

\* the argument the four-argument constructor hands to ReadRho
Ctor_RhoArgument(r_in, rho_in) == r_in

\* Sampler( edge_count_, settings_ ): r filled with one / edge_count, rho with one
Construct_Default ==
    /\ r = [i \in Edges |-> RDiv(one, R(EdgeCount, 1))]
    /\ rho = [i \in Edges |-> one]
    /\ total_r_inv = one
    /\ made_by = [ctor |-> 1, r_in |-> << >>, rho_in |-> << >>, fresh |-> TRUE]

\* Sampler( r_in, rho_in, edge_count_, settings_ ): ReadEdgeLengths(r_in); ReadRho(r_in)
Construct_WithLengths ==
    \E r_in \in LenSeqs, rho_in \in LenSeqs :
        /\ r = ReadEdgeLengths_r(r_in)
        /\ total_r_inv = ReadEdgeLengths_total_r_inv(r_in)
        /\ rho = ReadRho_rho(Ctor_RhoArgument(r_in, rho_in))
        /\ made_by = [ctor |-> 2, r_in |-> r_in, rho_in |-> rho_in, fresh |-> TRUE]

\* the record of the constructor call, once a setter has overwritten a buffer
Stale(m) == [ctor |-> m.ctor, r_in |-> << >>, rho_in |-> << >>, fresh |-> FALSE]

InitCtor ==
    /\ SolverInit({ CHOOSE st \in SettingsSet : TRUE })
    /\ BatchIdle
    /\ KernelIdle
    /\ (Construct_Default \/ Construct_WithLengths)

\* a later call of ReadEdgeLengths( r_in )
ReadEdgeLengths ==
    /\ \E r_in \in LenSeqs :
         /\ r' = ReadEdgeLengths_r(r_in)
         /\ total_r_inv' = ReadEdgeLengths_total_r_inv(r_in)
    /\ made_by' = Stale(made_by)
    /\ UNCHANGED << rho, solverVars, batchVars, kernelVars >>

\* a later call of ReadRho( rho_in )
ReadRho ==
    /\ \E rho_in \in LenSeqs : rho' = ReadRho_rho(rho_in)
    /\ made_by' = Stale(made_by)
    /\ UNCHANGED << r, total_r_inv, solverVars, batchVars, kernelVars >>

NextCtor ==
    \/ ReadEdgeLengths
    \/ ReadRho

SpecCtor == InitCtor /\ [][NextCtor]_vars

\* ------------------------------------------------------------ SpecBatch
\* JobPointers( sample_count, thread_count ): thread t owns
\* [ floor(t S / T), floor((t+1) S / T) )
JobPointers(S, T) == [t \in 0 .. T |-> (t * S) \div T]

Threads == 0 .. thread_count - 1

\* elements WriteShiftVector( w_out, k ) writes: w_out[ AmbDim * k + i ]
ShiftVectorSlice_Packed(kk) == { kk + i : i \in 0 .. AmbDim - 1 }
ShiftVectorSlice(kk) == { AmbDim * kk + i : i \in 0 .. AmbDim - 1 }

\* elements Write(Initial)EdgeCoordinates( out, k ) writes: copy_buffer of
\* edge_count * AmbDim reals to &out[ AmbDim * edge_count * k ]
EdgeCoordinatesSlice(kk) ==
    { AmbDim * EdgeCount * kk + j : j \in 0 .. EdgeCount * AmbDim - 1 }

\* K_edge_space[k], K_edge_quotient_space[k]
WeightSlice(kk) == { kk }

\* const Int k_begin = job_ptr[thread], with the block started one late
BlockBegin_SkipFirst(jp, t) == jp[t] + 1
\* const Int k_begin = job_ptr[thread]
BlockBegin(jp, t) == jp[t]
\* const Int k_end = job_ptr[thread+1]
BlockEnd(jp, t) == jp[t + 1]
\* const Int repetitions = job_ptr[thread+1] - job_ptr[thread]
Repetitions(jp, t) == jp[t + 1] - jp[t]

\* the thread t has written the elements sl of the output array a
Write(a, sl, t) ==
    [written EXCEPT ![a] = [e \in DOMAIN @ |-> IF e \in sl THEN @[e] \cup {t} ELSE @[e]]]

\* the thread t has taken up the sample kk
Process(kk, t) == [proc EXCEPT ![kk] = [by |-> @.by \cup {t}, n |-> @.n + 1]]

OutputArrays == { "x_out", "w_out", "y_out", "K_edge_space", "K_edge_quotient_space" }

\* reals per sample in the output array a
SliceLen(a) ==
    CASE a \in { "x_out", "y_out" } -> AmbDim * EdgeCount
      [] a = "w_out"                -> AmbDim
      [] OTHER                      -> 1

BatchOps == { "OptimizeBatch", "RandomClosedPolygons", "Sample_Binned" }

NoThread == -1

\* how Optimize() ended for a sample: Kantorovich success, continueQ false
\* without it, or the iteration cap
Outcomes == { "converged", "gave_up", "capped" }
Failed(o) == IF o = "converged" THEN 0 ELSE 1

\* what one entry of the caller's bins_out and moments_out holds at entry
PriorSet == 0 .. MaxPrior

\* #pragma omp critical: a thread enters when no thread is inside
CriticalFree_NoLock(l) == TRUE
CriticalFree(l) == l = NoThread

\* moments_local(0,i,0) += values[0], with values[0] = 1 for every repetition
RecordedCount_SkipFailed(o) == IF o = "converged" THEN 1 ELSE 0
RecordedCount(o) == 1

\* a batch call: the job pointers are built, bins_global and moments_global hold
\* the caller's arrays, the threads not yet started
InitBatch ==
    /\ SolverInit({ CHOOSE st \in SettingsSet : TRUE })
    /\ CtorIdle
    /\ KernelIdle
    /\ op \in BatchOps
    /\ sample_count \in 0 .. MaxS
    /\ thread_count \in 1 .. MaxT
    /\ job_ptr = JobPointers(sample_count, thread_count)
    /\ tpc = [t \in Threads |-> "start"]
    /\ tk = [t \in Threads |-> 0]
    /\ k_end = [t \in Threads |-> 0]
    /\ written = [a \in OutputArrays |-> [e \in 0 .. SliceLen(a) * sample_count - 1 |-> {}]]
    /\ proc = [kk \in 0 .. sample_count - 1 |-> [by |-> {}, n |-> 0]]
    /\ sb_prior \in IF op = "Sample_Binned"
                    THEN { [bins |-> p, moments |-> p] : p \in PriorSet }
                    ELSE { [bins |-> 0, moments |-> 0] }
    /\ sb_local = [t \in Threads |-> 0]
    /\ sb_global = sb_prior.moments
    /\ sb_bins_local = [t \in Threads |-> 0]
    /\ sb_bins_global = sb_prior.bins
    /\ sb_out = [bins |-> sb_prior.bins, moments |-> sb_prior.moments, done |-> FALSE]
    /\ sb_tmp = [t \in Threads |-> 0]
    /\ lock = NoThread
    /\ reduced = [t \in Threads |-> 0]
    /\ failures = 0

batchFixed == << op, sample_count, thread_count, job_ptr, sb_prior >>
sbShared   == << sb_global, sb_bins_global, sb_out, sb_tmp, lock, reduced >>
sbLocal    == << sb_local, sb_bins_local >>

\* the body of the parallel for starts: the block of the thread and its Sampler W
T_Begin(t) ==
    /\ tpc[t] = "start"
    /\ tk' = [tk EXCEPT ![t] = IF op = "Sample_Binned" THEN 0 ELSE BlockBegin(job_ptr, t)]
    /\ k_end' = [k_end EXCEPT ![t] = IF op = "Sample_Binned" THEN Repetitions(job_ptr, t)
                                     ELSE BlockEnd(job_ptr, t)]
    /\ tpc' = [tpc EXCEPT ![t] = "loop"]
    /\ UNCHANGED << batchFixed, written, proc, sbLocal, sbShared, failures >>
    /\ UNCHANGED << solverVars, ctorVars, kernelVars >>

\* OptimizeBatch: ReadInitialEdgeCoordinates( x_in, k ), ComputeShiftVector(),
\* Optimize(), WriteShiftVector( w_out, k )
T_OptimizeBatch_Solve(t) ==
    /\ op = "OptimizeBatch"
    /\ tpc[t] = "loop"
    /\ tk[t] < k_end[t]
    /\ \E o \in Outcomes : failures' = failures + Failed(o)
    /\ proc' = Process(tk[t], t)
    /\ written' = Write("w_out", ShiftVectorSlice(tk[t]), t)
    /\ tpc' = [tpc EXCEPT ![t] = "write_y"]
    /\ UNCHANGED << batchFixed, tk, k_end, sbLocal, sbShared >>
    /\ UNCHANGED << solverVars, ctorVars, kernelVars >>

\* RandomClosedPolygons: RandomizeInitialEdgeCoordinates(),
\* WriteInitialEdgeCoordinates( x_out, k )
T_RandomClosedPolygons_Draw(t) ==
    /\ op = "RandomClosedPolygons"
    /\ tpc[t] = "loop"
    /\ tk[t] < k_end[t]
    /\ proc' = Process(tk[t], t)
    /\ written' = Write("x_out", EdgeCoordinatesSlice(tk[t]), t)
    /\ tpc' = [tpc EXCEPT ![t] = "write_w"]
    /\ UNCHANGED << batchFixed, tk, k_end, sbLocal, sbShared, failures >>
    /\ UNCHANGED << solverVars, ctorVars, kernelVars >>

\* RandomClosedPolygons: ComputeShiftVector(), Optimize(), WriteShiftVector( w_out, k )
T_RandomClosedPolygons_Solve(t) ==
    /\ tpc[t] = "write_w"
    /\ \E o \in Outcomes : failures' = failures + Failed(o)
    /\ written' = Write("w_out", ShiftVectorSlice(tk[t]), t)
    /\ tpc' = [tpc EXCEPT ![t] = "write_y"]
    /\ UNCHANGED << batchFixed, tk, k_end, proc, sbLocal, sbShared >>
    /\ UNCHANGED << solverVars, ctorVars, kernelVars >>

\* WriteEdgeCoordinates( y_out, k ); the last statement of the body in OptimizeBatch
T_WriteEdgeCoordinates(t) ==
    /\ tpc[t] = "write_y"
    /\ written' = Write("y_out", EdgeCoordinatesSlice(tk[t]), t)
    /\ IF op = "OptimizeBatch"
       THEN /\ tk' = [tk EXCEPT ![t] = @ + 1]
            /\ tpc' = [tpc EXCEPT ![t] = "loop"]
       ELSE /\ tk' = tk
            /\ tpc' = [tpc EXCEPT ![t] = "write_K"]
    /\ UNCHANGED << batchFixed, k_end, proc, sbLocal, sbShared, failures >>
    /\ UNCHANGED << solverVars, ctorVars, kernelVars >>

\* RandomClosedPolygons: the two weights are computed; K_edge_space[k] = ...
T_WriteEdgeSpaceWeight(t) ==
    /\ tpc[t] = "write_K"
    /\ written' = Write("K_edge_space", WeightSlice(tk[t]), t)
    /\ tpc' = [tpc EXCEPT ![t] = "write_Kq"]
    /\ UNCHANGED << batchFixed, tk, k_end, proc, sbLocal, sbShared, failures >>
    /\ UNCHANGED << solverVars, ctorVars, kernelVars >>

\* RandomClosedPolygons: K_edge_quotient_space[k] = ...; ++k
T_WriteEdgeQuotientSpaceWeight(t) ==
    /\ tpc[t] = "write_Kq"
    /\ written' = Write("K_edge_quotient_space", WeightSlice(tk[t]), t)
    /\ tk' = [tk EXCEPT ![t] = @ + 1]
    /\ tpc' = [tpc EXCEPT ![t] = "loop"]
    /\ UNCHANGED << batchFixed, k_end, proc, sbLocal, sbShared, failures >>
    /\ UNCHANGED << solverVars, ctorVars, kernelVars >>

\* Sample_Binned: one repetition, accumulated in the tensors of the thread. The
\* body does not read how Optimize() ended; the sample falls into a bin or not.
T_SampleBinned_Repetition(t) ==
    /\ op = "Sample_Binned"
    /\ tpc[t] = "loop"
    /\ tk[t] < k_end[t]
    /\ \E o \in Outcomes, binned \in BOOLEAN :
         /\ failures' = failures + Failed(o)
         /\ sb_local' = [sb_local EXCEPT ![t] = @ + RecordedCount(o)]
         /\ sb_bins_local' = [sb_bins_local EXCEPT ![t] = @ + IF binned THEN 1 ELSE 0]
    /\ tk' = [tk EXCEPT ![t] = @ + 1]
    /\ UNCHANGED << batchFixed, tpc, k_end, written, proc, sbShared >>
    /\ UNCHANGED << solverVars, ctorVars, kernelVars >>

\* the loop of the thread ends
T_LoopEnd(t) ==
    /\ tpc[t] = "loop"
    /\ ~(tk[t] < k_end[t])
    /\ tpc' = [tpc EXCEPT ![t] = IF op = "Sample_Binned" THEN "reduce" ELSE "done"]
    /\ UNCHANGED << batchFixed, tk, k_end, written, proc, sbLocal, sbShared, failures >>
    /\ UNCHANGED << solverVars, ctorVars, kernelVars >>

\* Sample_Binned: the thread enters #pragma omp critical
T_SampleBinned_Reduce(t) ==
    /\ tpc[t] = "reduce"
    /\ CriticalFree(lock)
    /\ lock' = t
    /\ tpc' = [tpc EXCEPT ![t] = "add_bins"]
    /\ UNCHANGED << batchFixed, tk, k_end, written, proc, sbLocal, failures,
                    sb_global, sb_bins_global, sb_out, sb_tmp, reduced >>
    /\ UNCHANGED << solverVars, ctorVars, kernelVars >>

\* add_to_buffer( bins_local.data(), bins_global.data(), ... ): the load of
\* to[i] += from[i]
T_AddBins_Load(t) ==
    /\ tpc[t] = "add_bins"
    /\ sb_tmp' = [sb_tmp EXCEPT ![t] = sb_bins_global]
    /\ tpc' = [tpc EXCEPT ![t] = "add_bins_store"]
    /\ UNCHANGED << batchFixed, tk, k_end, written, proc, sbLocal, failures,
                    sb_global, sb_bins_global, sb_out, lock, reduced >>
    /\ UNCHANGED << solverVars, ctorVars, kernelVars >>

\* ... and its store
T_AddBins_Store(t) ==
    /\ tpc[t] = "add_bins_store"
    /\ sb_bins_global' = sb_tmp[t] + sb_bins_local[t]
    /\ sb_tmp' = [sb_tmp EXCEPT ![t] = 0]
    /\ tpc' = [tpc EXCEPT ![t] = "add_moments"]
    /\ UNCHANGED << batchFixed, tk, k_end, written, proc, sbLocal, failures,
                    sb_global, sb_out, lock, reduced >>
    /\ UNCHANGED << solverVars, ctorVars, kernelVars >>

\* add_to_buffer( moments_local.data(), moments_global.data(), ... ): the load
T_AddMoments_Load(t) ==
    /\ tpc[t] = "add_moments"
    /\ sb_tmp' = [sb_tmp EXCEPT ![t] = sb_global]
    /\ tpc' = [tpc EXCEPT ![t] = "add_moments_store"]
    /\ UNCHANGED << batchFixed, tk, k_end, written, proc, sbLocal, failures,
                    sb_global, sb_bins_global, sb_out, lock, reduced >>
    /\ UNCHANGED << solverVars, ctorVars, kernelVars >>

\* ... its store, and the end of the critical section and of the thread's body
T_AddMoments_Store(t) ==
    /\ tpc[t] = "add_moments_store"
    /\ sb_global' = sb_tmp[t] + sb_local[t]
    /\ sb_tmp' = [sb_tmp EXCEPT ![t] = 0]
    /\ reduced' = [reduced EXCEPT ![t] = @ + 1]
    /\ lock' = NoThread
    /\ tpc' = [tpc EXCEPT ![t] = "done"]
    /\ UNCHANGED << batchFixed, tk, k_end, written, proc, sbLocal, failures,
                    sb_bins_global, sb_out >>
    /\ UNCHANGED << solverVars, ctorVars, kernelVars >>

\* after the parallel region: bins_global.Write( bins_out );
\* moments_global.Write( moments_out )
SampleBinned_WriteOut ==
    /\ op = "Sample_Binned"
    /\ \A t \in Threads : tpc[t] = "done"
    /\ ~sb_out.done
    /\ sb_out' = [bins |-> sb_bins_global, moments |-> sb_global, done |-> TRUE]
    /\ UNCHANGED << batchFixed, tpc, tk, k_end, written, proc, sbLocal, failures,
                    sb_global, sb_bins_global, sb_tmp, lock, reduced >>
    /\ UNCHANGED << solverVars, ctorVars, kernelVars >>

NextBatch ==
    \/ \E t \in Threads :
        \/ T_Begin(t)
        \/ T_OptimizeBatch_Solve(t)
        \/ T_RandomClosedPolygons_Draw(t)
        \/ T_RandomClosedPolygons_Solve(t)
        \/ T_WriteEdgeCoordinates(t)
        \/ T_WriteEdgeSpaceWeight(t)
        \/ T_WriteEdgeQuotientSpaceWeight(t)
        \/ T_SampleBinned_Repetition(t)
        \/ T_LoopEnd(t)
        \/ T_SampleBinned_Reduce(t)
        \/ T_AddBins_Load(t)
        \/ T_AddBins_Store(t)
        \/ T_AddMoments_Load(t)
        \/ T_AddMoments_Store(t)
    \/ SampleBinned_WriteOut

SpecBatch == InitBatch /\ [][NextBatch]_vars

\* ------------------------------------------------------------ SpecShift
Dims == 0 .. AmbDim - 1

NoVec == << >>
ZeroVec == [i \in Dims |-> zero]
\* s * e_j
AxisVec(j, s_) == [i \in Dims |-> IF i = j THEN s_ ELSE zero]

\* unit vectors an initial direction x(k,.) is drawn from: the +-e_j and (3/5, 4/5, 0..)
UnitVectors ==
    { AxisVec(j, s_) : j \in Dims, s_ \in { one, RNeg(one) } }
        \cup { [i \in Dims |-> IF i = 0 THEN R(3, 5) ELSE IF i = 1 THEN R(4, 5) ELSE zero] }

\* vectors a caller passes as w_in: inside the ball, on the sphere, outside
WInSet == { ZeroVec, AxisVec(0, half), AxisVec(0, one), AxisVec(AmbDim - 1, two) }

RECURSIVE SquaredNormTo(_, _)
\* v[0]^2 + ... + v[n-1]^2
SquaredNormTo(v, n) == IF n = 0 THEN zero ELSE RAdd(SquaredNormTo(v, n - 1), RMul(v[n - 1], v[n - 1]))
SquaredNorm(v) == SquaredNormTo(v, AmbDim)

\* static constexpr Real small_one = 1 - 16 * eps
small_one == RSub(one, RMul(R(16, 1), eps))

RECURSIVE WeightedSumTo(_, _, _, _)
\* sum over the edges 1..n of x(k,i) * r_k
WeightedSumTo(xb, r_, i, n) ==
    IF n = 0 THEN zero ELSE RAdd(WeightedSumTo(xb, r_, i, n - 1), RMul(xb[n][i], r_[n]))

\* ComputeShiftVector(): w[i] = ( sum_k x(k,i) * r_k ) * total_r_inv
ComputeShiftVector_w(xb, r_, tri) ==
    [i \in Dims |-> RMul(WeightedSumTo(xb, r_, i, EdgeCount), tri)]

\* the test of ReadShiftVector that discards w_in, with the threshold at one
DiscardGuard_AboveOne(ww) == RLess(one, ww)
\* if( ww > small_one )
DiscardGuard(ww) == RLess(small_one, ww)

\* ReadShiftVector( w_in ): w = w_in; ComputeShiftVector() if ww > small_one
ReadShiftVector_w(w_in, xb, r_, tri) ==
    IF DiscardGuard(SquaredNorm(w_in)) THEN ComputeShiftVector_w(xb, r_, tri) ELSE w_in

\* a Sampler with edge lengths read and initial directions loaded
InitShift ==
    /\ SolverInit({ CHOOSE st \in SettingsSet : TRUE })
    /\ BatchIdle
    /\ \E r_in \in LenSeqs :
         /\ r = ReadEdgeLengths_r(r_in)
         /\ total_r_inv = ReadEdgeLengths_total_r_inv(r_in)
    /\ rho = [i \in Edges |-> one]
    /\ made_by = [ctor |-> 1, r_in |-> << >>, rho_in |-> << >>, fresh |-> FALSE]
    /\ BinnedIdle
    /\ RngIdle
    /\ CholIdle
    /\ SigmaIdle
    /\ EigIdle
    /\ FlowIdle
    /\ CastIdle
    /\ x_buffer \in [Edges -> UnitVectors]
    /\ w_vec = NoVec
    /\ shift_call = [name |-> "none", w_in |-> NoVec]

\* ReadShiftVector( w_in )
ReadShiftVector ==
    /\ \E w_in \in WInSet :
         /\ w_vec' = ReadShiftVector_w(w_in, x_buffer, r, total_r_inv)
         /\ shift_call' = [name |-> "ReadShiftVector", w_in |-> w_in]
    /\ UNCHANGED << x_buffer, otherThanShift >>

\* ComputeShiftVector()
ComputeShiftVector_Call ==
    /\ w_vec' = ComputeShiftVector_w(x_buffer, r, total_r_inv)
    /\ shift_call' = [name |-> "ComputeShiftVector", w_in |-> NoVec]
    /\ UNCHANGED << x_buffer, otherThanShift >>

NextShift ==
    \/ ReadShiftVector
    \/ ComputeShiftVector_Call

SpecShift == InitShift /\ [][NextShift]_vars

\* ------------------------------------------------------------ SpecBinned
Funs == 0 .. FunCount - 1
WeightRows == 0 .. 2

\* const Int bin_count = std::max( bin_count_, static_cast<Int>(1) )
BinCount(B_) == IF B_ < 1 THEN 1 ELSE B_
\* const Int moment_count = std::max( static_cast<Int>(3), moment_count_ )
MomentCount(M_) == IF M_ < 3 THEN 3 ELSE M_

\* flat index of the entry (w_, i, j) of a Tensor3 ( 3, fun_count, n )
TensorIdx(w_, i, j, n) == (w_ * FunCount + i) * n + j
\* Tensor3 ( 3, fun_count, n, zero ); also a zeroed caller's array of n entries per row
ZeroTensor(n) == [e \in 0 .. 3 * FunCount * n - 1 |-> zero]

\* ranges[2*i], ranges[2*i+1]: proper ranges, and two with range_hi <= range_lo
RangeSet == { [lo |-> 0, hi |-> 2], [lo |-> 0, hi |-> 49], [lo |-> 1, hi |-> 1],
              [lo |-> 2, hi |-> 0] }
\* values of the first random variable on a sample
ValSet == { 0, 1, 49 }
\* const Real val = F(W) of the i-th random variable
FunValue(i, v) == v + i
\* W.EdgeSpaceSamplingWeight(): computed from x, w, y, r, rho
KSet == { one, two }
\* ComputeEdgeQuotientSpaceSamplingCorrection(): one for AmbDim == 2, else
\* one / sqrt(det)
Correction == IF AmbDim = 2 THEN one ELSE half

Floor(a) == a.n \div a.d

\* (bin_count, range_hi - range_lo, val - range_lo), among bin_count in 1..5,
\* widths 2, 49, -2 and differences -5..60, for which the double
\* floor( (bin_count / width) * difference ) is one below the exact quotient
RoundedBelow == { << 1, 49, 49 >>, << 2, 49, 49 >>, << 4, 49, 49 >> }

\* static_cast<Int>(std::floor( factor[i] * (val - ranges[2*i]) )) with
\* factor(i) = bin_count / ( ranges[2*i+1] - ranges[2*i] ) in double arithmetic;
\* with a width of zero the factor is infinite and the cast of an infinite or NaN
\* product is undefined: an index outside the bins (-1) or the index 0
BinIndexSet(val, rg, bc) ==
    IF rg.hi = rg.lo
    THEN { -1, 0 }
    ELSE { Floor(R(bc * (val - rg.lo), rg.hi - rg.lo))
             - IF << bc, rg.hi - rg.lo, val - rg.lo >> \in RoundedBelow THEN 1 ELSE 0 }

\* if( (bin_idx <= upper) && (bin_idx >= lower) )
InBins(b, bc) == b <= bc - 1 /\ b >= 0

RECURSIVE Pow(_, _)
Pow(v, j) == IF j = 0 THEN 1 ELSE v * Pow(v, j - 1)

\* Real values [3] = { 1, K, K_quot }
Values(K, K_quot) == << one, K, K_quot >>

\* bins_local(w,i,bin_idx) += values[w] for every random variable i
AddToBins(bl, bi, vals, bc) ==
    [e \in DOMAIN bl |->
        LET w_ == e \div (FunCount * bc)
            i  == (e \div bc) % FunCount
            b  == e % bc
        IN  IF InBins(bi[i], bc) /\ bi[i] = b THEN RAdd(bl[e], vals[w_ + 1]) ELSE bl[e]]

\* moments_local(w,i,j) += values[w] * val^j for j < moment_count
AddToMoments(ml, v, vals, mc) ==
    [e \in DOMAIN ml |->
        LET w_ == e \div (FunCount * mc)
            i  == (e \div mc) % FunCount
            j  == e % mc
        IN  RAdd(ml[e], RMul(vals[w_ + 1], R(Pow(FunValue(i, v), j), 1)))]

\* scale_buffer( 1 / moments_i_j[0], moments_i_j, moment_count ) for every row
NormalizedMoments(m, M_) ==
    [e \in DOMAIN m |-> RMul(RDiv(one, m[(e \div M_) * M_]), m[e])]
\* scale_buffer( 1 / moments_i_j[0], bins_i_j, bin_count ) for every row
NormalizedBins(b, m, B_, M_) ==
    [e \in DOMAIN b |-> RMul(RDiv(one, m[(e \div B_) * M_]), b[e])]

NoSample == << >>

\* Sample_Binned( bins_out, bin_count_, moments_out, moment_count_, ranges, F_list_,
\* sample_count, 1 ) is entered with zeroed arrays of the sizes the caller states
InitBinned ==
    /\ SolverInit({ CHOOSE st \in SettingsSet : TRUE })
    /\ CtorIdle
    /\ BatchIdle
    /\ ShiftIdle
    /\ RngIdle
    /\ CholIdle
    /\ SigmaIdle
    /\ EigIdle
    /\ FlowIdle
    /\ CastIdle
    /\ bin_count_ \in 1 .. MaxBins
    /\ moment_count_ \in 1 .. MaxMoments
    /\ ranges \in RangeSet
    /\ repetitions \in 0 .. MaxRep
    /\ bphase = "loop"
    /\ rep_done = 0
    /\ smp = NoSample
    /\ bins_local = ZeroTensor(BinCount(bin_count_))
    /\ moments_local = ZeroTensor(MomentCount(moment_count_))
    /\ bins_out = ZeroTensor(bin_count_)
    /\ moments_out = ZeroTensor(moment_count_)
    /\ oob = {}
    /\ norm_count = 0

binFixed == << bin_count_, moment_count_, ranges, repetitions >>

\* one repetition: a sample is drawn and solved, its weights and the values of
\* the random variables are computed and accumulated
SampleBinned_Repetition ==
    /\ bphase = "loop"
    /\ rep_done < repetitions
    /\ \E v \in ValSet, K \in KSet, o \in Outcomes,
          bi \in [Funs -> -1 .. BinCount(bin_count_)] :
         /\ \A i \in Funs :
               bi[i] \in BinIndexSet(FunValue(i, v), ranges, BinCount(bin_count_))
         /\ smp' = [val |-> v, K |-> K, K_quot |-> RMul(K, Correction),
                    outcome |-> o, bin_idx |-> bi]
         /\ bins_local' = AddToBins(bins_local, bi, Values(K, RMul(K, Correction)),
                                    BinCount(bin_count_))
         /\ moments_local' = AddToMoments(moments_local, v,
                                          Values(K, RMul(K, Correction)),
                                          MomentCount(moment_count_))
    /\ rep_done' = rep_done + 1
    /\ UNCHANGED << binFixed, bphase, bins_out, moments_out, oob, norm_count >>
    /\ UNCHANGED otherThanBinned

\* after the loop: the local tensors are added to bins_global and moments_global,
\* built from the caller's arrays, and written back; the tensors have
\* 3 * fun_count * moment_count entries, the caller's array 3 * fun_count * moment_count_
SampleBinned_Finish ==
    /\ bphase = "loop"
    /\ ~(rep_done < repetitions)
    /\ bins_out' = [e \in DOMAIN bins_out |-> RAdd(bins_out[e], bins_local[e])]
    /\ moments_out' = [e \in DOMAIN moments_out |-> RAdd(moments_out[e], moments_local[e])]
    /\ oob' = DOMAIN moments_local \ DOMAIN moments_out
    /\ bphase' = "returned"
    /\ smp' = NoSample
    /\ UNCHANGED << binFixed, rep_done, bins_local, moments_local, norm_count >>
    /\ UNCHANGED otherThanBinned

\* NormalizeBinnedSamples( bins_out, bin_count_, moments_out, moment_count_, fun_count )
NormalizeBinnedSamples ==
    /\ bphase = "returned"
    /\ norm_count < 2
    /\ bins_out' = NormalizedBins(bins_out, moments_out, bin_count_, moment_count_)
    /\ moments_out' = NormalizedMoments(moments_out, moment_count_)
    /\ norm_count' = norm_count + 1
    /\ UNCHANGED << binFixed, bphase, rep_done, smp, bins_local, moments_local, oob >>
    /\ UNCHANGED otherThanBinned

NextBinned ==
    \/ SampleBinned_Repetition
    \/ SampleBinned_Finish
    \/ NormalizeBinnedSamples

SpecBinned == InitBinned /\ [][NextBinned]_vars

\* ------------------------------------------------------------ SpecRng
\* values of std::random_device r; r()
RandomDevice == 0 .. MaxEntropy
RootSeeds == { 42 }

RsThreads == 0 .. rs_threads - 1
RsSamples == 0 .. rs_samples - 1

NoDraw == [seed |-> -1, n |-> -1]

\* std::seed_seq seed { r(), r(), r(), r() }; std::mt19937_64 random_engine_loc { seed }:
\* the seed of the engine of a thread, given what the device returned and the
\* seed the caller fixed
EngineSeed(device, root) == device

\* the n-th sample the thread draws from its engine: dist( random_engine_loc )
Draw(seed, n) == [seed |-> seed, n |-> n]

\* the vectors of x_out: [sample l, edge k]
RsPositions == RsSamples \X Edges

\* two runs of RandomSphericalPoints( x_out, sample_count, thread_count ) with
\* the same root seed, the first entered
InitRng ==
    /\ SolverInit({ CHOOSE st \in SettingsSet : TRUE })
    /\ CtorIdle
    /\ BatchIdle
    /\ ShiftIdle
    /\ BinnedIdle
    /\ CholIdle
    /\ SigmaIdle
    /\ EigIdle
    /\ FlowIdle
    /\ CastIdle
    /\ root_seed \in RootSeeds
    /\ rs_samples \in 1 .. MaxS
    /\ rs_threads \in 1 .. MaxT
    /\ rs_run = 1
    /\ rs_done = {}
    /\ rs_out = [run \in 1 .. 2 |-> [l \in RsSamples |-> NoDraw]]
    /\ rs_written = [run \in 1 .. 2 |-> [pos \in RsPositions |-> 0]]

\* if( thread_count == 1 ): one loop over the edges, drawing from the engine of
\* the Sampler and writing x_out[ AmbDim * k + i ]
RandomSphericalPoints_Serial ==
    /\ rs_run \in 1 .. 2
    /\ rs_threads = 1
    /\ rs_done = {}
    /\ rs_out' = [rs_out EXCEPT ![rs_run][0] = Draw(root_seed, 0)]
    /\ rs_written' = [rs_written EXCEPT ![rs_run] =
           [pos \in RsPositions |-> IF pos[1] = 0 THEN @[pos] + 1 ELSE @[pos]]]
    /\ rs_done' = {0}
    /\ UNCHANGED << root_seed, rs_samples, rs_threads, rs_run >>
    /\ UNCHANGED otherThanRng

\* the body of the parallel for of one thread: its engine is seeded, and the
\* samples l_begin <= l < l_end are drawn from it and written to x_out
RandomSphericalPoints_Thread(t) ==
    /\ rs_run \in 1 .. 2
    /\ rs_threads # 1
    /\ t \notin rs_done
    /\ \E device \in RandomDevice :
         LET jp == JobPointers(rs_samples, rs_threads)
         IN  rs_out' = [rs_out EXCEPT ![rs_run] =
                 [l \in RsSamples |->
                     IF BlockBegin(jp, t) <= l /\ l < BlockEnd(jp, t)
                     THEN Draw(EngineSeed(device, root_seed), l - BlockBegin(jp, t))
                     ELSE @[l]]]
    /\ LET jp == JobPointers(rs_samples, rs_threads)
       IN  rs_written' = [rs_written EXCEPT ![rs_run] =
               [pos \in RsPositions |->
                   IF BlockBegin(jp, t) <= pos[1] /\ pos[1] < BlockEnd(jp, t)
                   THEN @[pos] + 1 ELSE @[pos]]]
    /\ rs_done' = rs_done \cup {t}
    /\ UNCHANGED << root_seed, rs_samples, rs_threads, rs_run >>
    /\ UNCHANGED otherThanRng

\* the end of the parallel region: the call returns, the next run is entered
RandomSphericalPoints_Return ==
    /\ rs_run \in 1 .. 2
    /\ rs_done = RsThreads
    /\ rs_run' = rs_run + 1
    /\ rs_done' = {}
    /\ UNCHANGED << root_seed, rs_samples, rs_threads, rs_out, rs_written >>
    /\ UNCHANGED otherThanRng

NextRng ==
    \/ RandomSphericalPoints_Serial
    \/ \E t \in RsThreads : RandomSphericalPoints_Thread(t)
    \/ RandomSphericalPoints_Return

SpecRng == InitRng /\ [][NextRng]_vars

\* ------------------------------------------------------------ SpecChol
\* an entry of A: "exact" with its value v; "factor", an entry of the factor
\* with v its square; "nonfinite", NaN or infinite
Exact(v_) == [cls |-> "exact", v |-> v_]
Factor(v_) == [cls |-> "factor", v |-> v_]
NonFinite == [cls |-> "nonfinite", v |-> R(0, 0)]

UpperEntries == { ij \in Dims \X Dims : ij[1] <= ij[2] }

\* A = DF + c * identity, upper triangle, entries drawn from -1 .. MaxEntry
CholInputs == [UpperEntries -> { Exact(R(n, 1)) : n \in -1 .. MaxEntry }]

\* std::sqrt( A[k][k] ) and one / a are finite exactly for a finite pivot > 0
PivotFinite(p) == p.cls = "exact" /\ RLess(zero, p.v)

\* one pass of the loop of Cholesky(): a = A[k][k] = sqrt(A[k][k]); row k is scaled
\* by 1/a; A[i][j] -= A[k][i] * A[k][j] for k < i <= j. The pass has no test of the
\* pivot. With a finite pivot p > 0 the scaled row has the squares A[k][j]^2 / p and
\* the trailing block is A[i][j] - A[k][i] A[k][j] / p in terms of the entries
\* before the pass; otherwise a is 0 or NaN and every entry the pass writes is
\* infinite or NaN.
CholeskyPass(A_, k_) ==
    [ij \in UpperEntries |->
        IF ij[1] < k_ THEN A_[ij]
        ELSE IF ~PivotFinite(A_[<< k_, k_ >>]) THEN NonFinite
        ELSE IF ij[1] = k_
             THEN Factor(RDiv(RMul(A_[ij].v, A_[ij].v), A_[<< k_, k_ >>].v))
        ELSE Exact(RSub(A_[ij].v,
                        RDiv(RMul(A_[<< k_, ij[1] >>].v, A_[<< k_, ij[2] >>].v),
                             A_[<< k_, k_ >>].v)))]

\* SearchDirection_Hyperbolic() has assembled A and calls Cholesky()
InitChol ==
    /\ SolverInit({ CHOOSE st \in SettingsSet : TRUE })
    /\ CtorIdle
    /\ BatchIdle
    /\ ShiftIdle
    /\ BinnedIdle
    /\ RngIdle
    /\ SigmaIdle
    /\ EigIdle
    /\ FlowIdle
    /\ CastIdle
    /\ chol_A \in CholInputs
    /\ chol_k = 0
    /\ chol_failed = FALSE
    /\ chol_u = "none"

\* for( Int k = 0; k < AmbDim; ++k ) { ... }
Cholesky_Pass ==
    /\ chol_u = "none"
    /\ chol_k < AmbDim
    /\ chol_A' = CholeskyPass(chol_A, chol_k)
    /\ chol_failed' = (chol_failed \/ ~PivotFinite(chol_A[<< chol_k, chol_k >>]))
    /\ chol_k' = chol_k + 1
    /\ UNCHANGED chol_u
    /\ UNCHANGED otherThanChol

\* Cholesky() has returned: u[i] = -F[i]
SearchDirection_RightHandSide ==
    /\ chol_u = "none"
    /\ ~(chol_k < AmbDim)
    /\ chol_u' = "rhs"
    /\ UNCHANGED << chol_A, chol_k, chol_failed >>
    /\ UNCHANGED otherThanChol

\* CholeskySolve(): u is divided by the diagonal and combined with the rows of the factor
CholeskySolve ==
    /\ chol_u = "rhs"
    /\ chol_u' = IF \E ij \in UpperEntries : chol_A[ij] = NonFinite
                 THEN "nonfinite" ELSE "finite"
    /\ UNCHANGED << chol_A, chol_k, chol_failed >>
    /\ UNCHANGED otherThanChol

NextChol ==
    \/ Cholesky_Pass
    \/ SearchDirection_RightHandSide
    \/ CholeskySolve

SpecChol == InitChol /\ [][NextChol]_vars

\* ------------------------------------------------------------ SpecSigma
SigmaDims  == 0 .. SigmaDim - 1
SigmaEdges == 0 .. EdgeCount - 1

\* the entries A[j][i], j >= i, the routine fills
LowerEntries == { ji \in SigmaDims \X SigmaDims : ji[1] >= ji[2] }

\* unit vectors y(k,.): plus and minus the axes
SigmaVectors ==
    { [i \in SigmaDims |-> IF i = j THEN sgn ELSE 0] : j \in SigmaDims, sgn \in { -1, 1 } }

\* what A holds at entry: left by an earlier call
StaleEntries == { 0, 5 }

\* if constexpr ( AmbDim == 2 ) { ...; return; } is not taken; the first block is entered
InitSigma ==
    /\ SolverInit({ CHOOSE st \in SettingsSet : TRUE })
    /\ CtorIdle
    /\ BatchIdle
    /\ ShiftIdle
    /\ BinnedIdle
    /\ RngIdle
    /\ CholIdle
    /\ EigIdle
    /\ FlowIdle
    /\ CastIdle
    /\ sg_rho \in [SigmaEdges -> 1 .. MaxRho]
    /\ sg_y \in [SigmaEdges -> SigmaVectors]
    /\ \E a \in StaleEntries : sg_A = [ji \in LowerEntries |-> a]
    /\ sg_k = 0
    /\ sg_phase = "first"

\* rho_squared * y(k,i) * y(k,j)
EdgeTerm(k_, ji) == sg_rho[k_] * sg_rho[k_] * sg_y[k_][ji[2]] * sg_y[k_][ji[1]]

\* the block before the loop: A[j][i] = factor * y(0,j) with rho[0]
Sigma_FirstEdge ==
    /\ sg_phase = "first"
    /\ sg_A' = [ji \in LowerEntries |-> EdgeTerm(0, ji)]
    /\ sg_k' = 0
    /\ sg_phase' = "loop"
    /\ UNCHANGED << sg_rho, sg_y >>
    /\ UNCHANGED otherThanSigma

\* one pass of for( Int k = 0; k < edge_count; ++k ): A[j][i] += factor * y(k,j)
Sigma_AddEdge ==
    /\ sg_phase = "loop"
    /\ sg_k < EdgeCount
    /\ sg_A' = [ji \in LowerEntries |-> sg_A[ji] + EdgeTerm(sg_k, ji)]
    /\ sg_k' = sg_k + 1
    /\ UNCHANGED << sg_rho, sg_y, sg_phase >>
    /\ UNCHANGED otherThanSigma

\* the loop ends: the correction is derived from A
Sigma_Done ==
    /\ sg_phase = "loop"
    /\ ~(sg_k < EdgeCount)
    /\ sg_phase' = "done"
    /\ UNCHANGED << sg_rho, sg_y, sg_A, sg_k >>
    /\ UNCHANGED otherThanSigma

NextSigma ==
    \/ Sigma_FirstEdge
    \/ Sigma_AddEdge
    \/ Sigma_Done

SpecSigma == InitSigma /\ [][NextSigma]_vars

\* ------------------------------------------------------------ SpecEig
\* the dimensions: the closed form for 2, the trigonometric form for 3, Eigen for 4
EigDimSet == { 2, 3, 4 }

EigUpper(d) == { ij \in (0 .. d - 1) \X (0 .. d - 1) : ij[1] <= ij[2] }

\* unit vectors y: the axis e_i (i = j), or ( e_i + s e_j ) / sqrt(2)
EigDirections(d) ==
    { v \in [i : 0 .. d - 1, j : 0 .. d - 1, s : { -1, 1 }] :
        v.i <= v.j /\ (v.i = v.j => v.s = 1) }

\* y[a] * y[b] of such a vector, in halves
Outer(v, ij) ==
    IF v.i = v.j
    THEN (IF ij[1] = v.i /\ ij[2] = v.i THEN 2 ELSE 0)
    ELSE IF ij[1] = ij[2]
         THEN (IF ij[1] \in { v.i, v.j } THEN 1 ELSE 0)
         ELSE (IF ij[1] = v.i /\ ij[2] = v.j THEN v.s ELSE 0)

\* DifferentialAndHessian_Hyperbolic() for two edges of length 1:
\* DF[i][j] = delta_ij - sum_k r_k y(k,i) y(k,j) / R, in twelfths
Hessian(d, v1, v2) ==
    [ij \in EigUpper(d) |->
        (IF ij[1] = ij[2] THEN 12 ELSE 0) - 3 * (Outer(v1, ij) + Outer(v2, ij))]

\* what the entries of A hold, in twelfths: left by the Cholesky factorisation of
\* an earlier iteration or sample
StaleTwelfths == { 0, -3, -6 }

\* AmbDim == 2: half * ( DF[0][0] + DF[1][1] - sqrt( | (DF[0][0]-DF[1][1])^2 + 4 DF[0][1]^2 | ) ),
\* given by the trace and the term under the root
SmallestEigenvalue2(DF_) ==
    [ q   |-> DF_[<< 0, 0 >>] + DF_[<< 1, 1 >>],
      p2  |-> (DF_[<< 0, 0 >>] - DF_[<< 1, 1 >>]) * (DF_[<< 0, 0 >>] - DF_[<< 1, 1 >>])
              + 4 * DF_[<< 0, 1 >>] * DF_[<< 0, 1 >>],
      r   |-> [clamped |-> 0, N |-> 0],
      min |-> 0 ]

\* AmbDim == 3. With p1 = 0 the test sqrt(p1) < eps * sqrt(...) holds and the result
\* is the smallest diagonal entry (min). Otherwise q = trace / 3, p2 from DF, and
\* b12, b13, b23 are read from A: r = N / (2 p^3) with N the polynomial below and
\* p^2 = p2 / 6, clamped to [-1, 1], i.e. where 54 N^2 >= p2^3; the result
\* q + 2 p cos( acos(r)/3 + 2 pi/3 ) increases strictly with r between the clamps.
SmallestEigenvalue3(DF_, A_) ==
    LET p1 == DF_[<< 0, 1 >>] * DF_[<< 0, 1 >>] + DF_[<< 0, 2 >>] * DF_[<< 0, 2 >>]
              + DF_[<< 1, 2 >>] * DF_[<< 1, 2 >>]
        q_  == (DF_[<< 0, 0 >>] + DF_[<< 1, 1 >>] + DF_[<< 2, 2 >>]) \div 3
        d0  == DF_[<< 0, 0 >>] - q_
        d1  == DF_[<< 1, 1 >>] - q_
        d2  == DF_[<< 2, 2 >>] - q_
        p2_ == d0 * d0 + d1 * d1 + d2 * d2 + 2 * p1
        b12 == A_[<< 0, 1 >>]
        b13 == A_[<< 0, 2 >>]
        b23 == A_[<< 1, 2 >>]
        N_  == 2 * b12 * b23 * b13 - d0 * b23 * b23 - b12 * b12 * d2
               + d0 * d1 * d2 - b13 * b13 * d1
        min3(a, b, c) == IF a <= b /\ a <= c THEN a ELSE IF b <= c THEN b ELSE c
    IN  IF p1 = 0
        THEN [ q |-> 0, p2 |-> 0, r |-> [clamped |-> 0, N |-> 0],
               min |-> min3(DF_[<< 0, 0 >>], DF_[<< 1, 1 >>], DF_[<< 2, 2 >>]) ]
        ELSE [ q |-> q_, p2 |-> p2_,
               r |-> IF 54 * N_ * N_ >= p2_ * p2_ * p2_
                     THEN [clamped |-> (IF N_ > 0 THEN 1 ELSE -1), N |-> 0]
                     ELSE [clamped |-> 0, N |-> N_],
               min |-> 0 ]

\* general AmbDim: Matrix_T Sigma( &DF[0][0] ); eigs.compute( Sigma ); eigenvalues()[0]
SmallestEigenvalueN(DF_) ==
    [ q |-> 0, p2 |-> 0, r |-> [clamped |-> 0, N |-> 0], min |-> 0 ]

\* SmallestEigenvalue(): the value, with the DF it belongs to
SmallestEigenvalue(d, DF_, A_) ==
    [ of  |-> DF_,
      val |-> IF d = 2 THEN SmallestEigenvalue2(DF_)
              ELSE IF d = 3 THEN SmallestEigenvalue3(DF_, A_)
              ELSE SmallestEigenvalueN(DF_) ]

EigStates == 1 .. 2

\* two solver states with the same DF whose scratch matrices A may differ
InitEig ==
    /\ SolverInit({ CHOOSE st \in SettingsSet : TRUE })
    /\ CtorIdle
    /\ BatchIdle
    /\ ShiftIdle
    /\ BinnedIdle
    /\ RngIdle
    /\ CholIdle
    /\ SigmaIdle
    /\ FlowIdle
    /\ CastIdle
    /\ ev_dim \in EigDimSet
    /\ \E v1 \in EigDirections(ev_dim), v2 \in EigDirections(ev_dim) :
         ev_DF = Hessian(ev_dim, v1, v2)
    /\ \E a \in [EigStates -> StaleTwelfths] :
         ev_A = [st \in EigStates |-> [ij \in EigUpper(ev_dim) |-> a[st]]]
    /\ ev_done = {}
    /\ ev_lam = [st \in EigStates |-> SmallestEigenvalue(ev_dim, ev_DF, ev_DF)]

\* lambda_min = SmallestEigenvalue() in one of the solver states
Eig_SmallestEigenvalue(st) ==
    /\ st \notin ev_done
    /\ ev_lam' = [ev_lam EXCEPT ![st] = SmallestEigenvalue(ev_dim, ev_DF, ev_A[st])]
    /\ ev_done' = ev_done \cup { st }
    /\ UNCHANGED << ev_dim, ev_DF, ev_A >>
    /\ UNCHANGED otherThanEig

NextEig == \E st \in EigStates : Eig_SmallestEigenvalue(st)

SpecEig == InitEig /\ [][NextEig]_vars

\* ------------------------------------------------------------ SpecFlow
NoWeight == [x |-> -1, w |-> NoW, y |-> NoY]
NoLocals == [K |-> NoWeight, K_quot |-> [K |-> NoWeight, chi |-> NoY],
             val |-> [fun |-> -1, y |-> NoY, p |-> NoY, K |-> NoWeight]]

\* StepAfter without the call of ComputeSpaceCoordinates()
StepAfter_SkipSpaceCoordinates(st) ==
    CASE st = "RandomizeInitialEdgeCoordinates" -> "ComputeShiftVector"
      [] st = "ComputeShiftVector" -> "Optimize"
      [] st = "Optimize" -> "ComputeEdgeSpaceSamplingWeight"
      [] st = "ComputeSpaceCoordinates" -> "ComputeEdgeSpaceSamplingWeight"
      [] st = "ComputeEdgeSpaceSamplingWeight" -> "ComputeEdgeQuotientSpaceSamplingCorrection"
      [] st = "ComputeEdgeQuotientSpaceSamplingCorrection" -> "weights"
      [] st = "weights" -> "functionals"

\* the statements of the body of for( Int k = 0; k < repetitions; ++k ), in the
\* order of the source
StepAfter(st) ==
    CASE st = "RandomizeInitialEdgeCoordinates" -> "ComputeShiftVector"
      [] st = "ComputeShiftVector" -> "Optimize"
      [] st = "Optimize" -> "ComputeSpaceCoordinates"
      [] st = "ComputeSpaceCoordinates" -> "ComputeEdgeSpaceSamplingWeight"
      [] st = "ComputeEdgeSpaceSamplingWeight" -> "ComputeEdgeQuotientSpaceSamplingCorrection"
      [] st = "ComputeEdgeQuotientSpaceSamplingCorrection" -> "weights"
      [] st = "weights" -> "functionals"

\* Sampler W( edge_count, settings ) of the worker; the loop over the samples is entered
InitFlow ==
    /\ SolverInit({ CHOOSE st \in SettingsSet : TRUE })
    /\ CtorIdle
    /\ BatchIdle
    /\ ShiftIdle
    /\ BinnedIdle
    /\ RngIdle
    /\ CholIdle
    /\ SigmaIdle
    /\ EigIdle
    /\ CastIdle
    /\ fl_rep \in 0 .. MaxSamples
    /\ fl_funs \in 1 .. FunCount + 1
    /\ fl_pc = "loop"
    /\ fl_k = 0
    /\ fl_i = 0
    /\ fl_x = -1
    /\ fl_w = NoW
    /\ fl_y = NoY
    /\ fl_p = NoY
    /\ fl_K = NoWeight
    /\ fl_chi = NoY
    /\ fl_loc = NoLocals
    /\ fl_rec = {}

flowFixed == << fl_rep, fl_funs >>

\* k < repetitions: the body is entered
Flow_Loop ==
    /\ fl_pc = "loop"
    /\ fl_k < fl_rep
    /\ fl_pc' = "RandomizeInitialEdgeCoordinates"
    /\ UNCHANGED << flowFixed, fl_k, fl_i, fl_x, fl_w, fl_y, fl_p, fl_K, fl_chi, fl_loc, fl_rec >>
    /\ UNCHANGED otherThanFlow

\* the loop ends
Flow_LoopEnd ==
    /\ fl_pc = "loop"
    /\ ~(fl_k < fl_rep)
    /\ fl_pc' = "done"
    /\ UNCHANGED << flowFixed, fl_k, fl_i, fl_x, fl_w, fl_y, fl_p, fl_K, fl_chi, fl_loc, fl_rec >>
    /\ UNCHANGED otherThanFlow

\* W.RandomizeInitialEdgeCoordinates(): x of the sample k
Flow_RandomizeInitialEdgeCoordinates ==
    /\ fl_pc = "RandomizeInitialEdgeCoordinates"
    /\ fl_x' = fl_k
    /\ fl_pc' = StepAfter(fl_pc)
    /\ UNCHANGED << flowFixed, fl_k, fl_i, fl_w, fl_y, fl_p, fl_K, fl_chi, fl_loc, fl_rec >>
    /\ UNCHANGED otherThanFlow

\* W.ComputeShiftVector()
Flow_ComputeShiftVector ==
    /\ fl_pc = "ComputeShiftVector"
    /\ fl_w' = ComputeShiftVector(fl_x)
    /\ fl_pc' = StepAfter(fl_pc)
    /\ UNCHANGED << flowFixed, fl_k, fl_i, fl_x, fl_y, fl_p, fl_K, fl_chi, fl_loc, fl_rec >>
    /\ UNCHANGED otherThanFlow

\* W.Optimize(): Shift(), then n passes of the main loop, each ending with
\* InverseShift(); Shift()
Flow_Optimize ==
    /\ fl_pc = "Optimize"
    /\ \E n \in 0 .. MaxIter :
         /\ fl_w' = [s |-> fl_w.s, ver |-> fl_w.ver + n]
         /\ fl_y' = Shift(fl_x, fl_w')
    /\ fl_pc' = StepAfter(fl_pc)
    /\ UNCHANGED << flowFixed, fl_k, fl_i, fl_x, fl_p, fl_K, fl_chi, fl_loc, fl_rec >>
    /\ UNCHANGED otherThanFlow

\* W.ComputeSpaceCoordinates(): p from y and r
Flow_ComputeSpaceCoordinates ==
    /\ fl_pc = "ComputeSpaceCoordinates"
    /\ fl_p' = fl_y
    /\ fl_pc' = StepAfter(fl_pc)
    /\ UNCHANGED << flowFixed, fl_k, fl_i, fl_x, fl_w, fl_y, fl_K, fl_chi, fl_loc, fl_rec >>
    /\ UNCHANGED otherThanFlow

\* W.ComputeEdgeSpaceSamplingWeight(): from x_buffer, w, y_buffer, r, rho
Flow_ComputeEdgeSpaceSamplingWeight ==
    /\ fl_pc = "ComputeEdgeSpaceSamplingWeight"
    /\ fl_K' = [x |-> fl_x, w |-> fl_w, y |-> fl_y]
    /\ fl_pc' = StepAfter(fl_pc)
    /\ UNCHANGED << flowFixed, fl_k, fl_i, fl_x, fl_w, fl_y, fl_p, fl_chi, fl_loc, fl_rec >>
    /\ UNCHANGED otherThanFlow

\* W.ComputeEdgeQuotientSpaceSamplingCorrection(): from y and rho
Flow_ComputeEdgeQuotientSpaceSamplingCorrection ==
    /\ fl_pc = "ComputeEdgeQuotientSpaceSamplingCorrection"
    /\ fl_chi' = fl_y
    /\ fl_pc' = StepAfter(fl_pc)
    /\ UNCHANGED << flowFixed, fl_k, fl_i, fl_x, fl_w, fl_y, fl_p, fl_K, fl_loc, fl_rec >>
    /\ UNCHANGED otherThanFlow

\* K = W.EdgeSpaceSamplingWeight(); K_quot = W.EdgeQuotientSpaceSamplingWeight(); i = 0
Flow_Weights ==
    /\ fl_pc = "weights"
    /\ fl_loc' = [fl_loc EXCEPT !.K = fl_K, !.K_quot = [K |-> fl_K, chi |-> fl_chi]]
    /\ fl_i' = 0
    /\ fl_pc' = StepAfter(fl_pc)
    /\ UNCHANGED << flowFixed, fl_k, fl_x, fl_w, fl_y, fl_p, fl_K, fl_chi, fl_rec >>
    /\ UNCHANGED otherThanFlow

\* i < fun_count: val = F(W), which reads y, p and the weight of W
Flow_Evaluate ==
    /\ fl_pc = "functionals"
    /\ fl_i < fl_funs
    /\ fl_loc' = [fl_loc EXCEPT !.val = [fun |-> fl_i, y |-> fl_y, p |-> fl_p, K |-> fl_K]]
    /\ fl_pc' = "accumulate"
    /\ UNCHANGED << flowFixed, fl_k, fl_i, fl_x, fl_w, fl_y, fl_p, fl_K, fl_chi, fl_rec >>
    /\ UNCHANGED otherThanFlow

\* the bin and the moments of functional i receive { 1, K, K_quot } and val; ++i
Flow_Accumulate ==
    /\ fl_pc = "accumulate"
    /\ fl_rec' = fl_rec \cup { [sample |-> fl_k, fun |-> fl_i, val |-> fl_loc.val,
                                K |-> fl_loc.K, K_quot |-> fl_loc.K_quot] }
    /\ fl_i' = fl_i + 1
    /\ fl_pc' = "functionals"
    /\ UNCHANGED << flowFixed, fl_k, fl_x, fl_w, fl_y, fl_p, fl_K, fl_chi, fl_loc >>
    /\ UNCHANGED otherThanFlow

\* the loop over the functionals ends; ++k
Flow_NextSample ==
    /\ fl_pc = "functionals"
    /\ ~(fl_i < fl_funs)
    /\ fl_k' = fl_k + 1
    /\ fl_pc' = "loop"
    /\ UNCHANGED << flowFixed, fl_i, fl_x, fl_w, fl_y, fl_p, fl_K, fl_chi, fl_loc, fl_rec >>
    /\ UNCHANGED otherThanFlow

NextFlow ==
    \/ Flow_Loop
    \/ Flow_LoopEnd
    \/ Flow_RandomizeInitialEdgeCoordinates
    \/ Flow_ComputeShiftVector
    \/ Flow_Optimize
    \/ Flow_ComputeSpaceCoordinates
    \/ Flow_ComputeEdgeSpaceSamplingWeight
    \/ Flow_ComputeEdgeQuotientSpaceSamplingCorrection
    \/ Flow_Weights
    \/ Flow_Evaluate
    \/ Flow_Accumulate
    \/ Flow_NextSample

SpecFlow == InitFlow /\ [][NextFlow]_vars

\* ------------------------------------------------------------ SpecCast
\* F_list_ of up to MaxLen random variables
CastLists == UNION { [1 .. n -> BOOLEAN] : n \in 0 .. MaxLen }

\* what a build does with print( F_list__[i]->Tag() ) on a null F_list__[i]: the
\* call traps; or it returns and the test that follows is made; or it returns and
\* the test, of a pointer already dereferenced, has been removed
NullDerefOutcomes == { "trap", "tested", "test_removed" }

\* the overload is entered: size = F_list_.size(), F_list__ ( size ), i = 0
InitCast ==
    /\ SolverInit({ CHOOSE st \in SettingsSet : TRUE })
    /\ CtorIdle
    /\ BatchIdle
    /\ ShiftIdle
    /\ BinnedIdle
    /\ RngIdle
    /\ CholIdle
    /\ SigmaIdle
    /\ EigIdle
    /\ FlowIdle
    /\ cs_list \in CastLists
    /\ cs_samples \in 0 .. MaxS
    /\ cs_i = 1
    /\ cs_pc = "cast"
    /\ cs_ptr = "unset"
    /\ cs_null_deref = FALSE
    /\ cs_elided = FALSE
    /\ cs_reported = FALSE
    /\ cs_called = FALSE

castFixed == << cs_list, cs_samples >>

\* i < size: F_list__[i] = unique_ptr( dynamic_cast<RandomVariable_T *>( ... ) )
Cast_Downcast ==
    /\ cs_pc = "cast"
    /\ cs_i <= Len(cs_list)
    /\ cs_ptr' = IF cs_list[cs_i] THEN "object" ELSE "null"
    /\ cs_pc' = "tag"
    /\ UNCHANGED << castFixed, cs_i, cs_null_deref, cs_elided, cs_reported, cs_called >>
    /\ UNCHANGED otherThanCast

\* print( F_list__[i]->Tag() )
Cast_PrintTag ==
    /\ cs_pc = "tag"
    /\ IF cs_ptr = "null"
       THEN /\ cs_null_deref' = TRUE
            /\ \E o \in NullDerefOutcomes :
                 /\ cs_pc' = IF o = "trap" THEN "crashed" ELSE "check"
                 /\ cs_elided' = (o = "test_removed")
       ELSE /\ cs_pc' = "check"
            /\ UNCHANGED << cs_null_deref, cs_elided >>
    /\ UNCHANGED << castFixed, cs_i, cs_ptr, cs_reported, cs_called >>
    /\ UNCHANGED otherThanCast

\* if( F_list__[i] == nullptr ) { eprint(...); return; }  ++i
Cast_Check ==
    /\ cs_pc = "check"
    /\ IF cs_ptr = "null" /\ ~cs_elided
       THEN /\ cs_reported' = TRUE
            /\ cs_pc' = "returned"
            /\ UNCHANGED cs_i
       ELSE /\ cs_i' = cs_i + 1
            /\ cs_pc' = "cast"
            /\ UNCHANGED cs_reported
    /\ UNCHANGED << castFixed, cs_ptr, cs_null_deref, cs_elided, cs_called >>
    /\ UNCHANGED otherThanCast

\* the loop ends: Sample_Binned( bins_out, ..., F_list__, sample_count, thread_count )
Cast_CallSampleBinned ==
    /\ cs_pc = "cast"
    /\ ~(cs_i <= Len(cs_list))
    /\ cs_called' = TRUE
    /\ cs_pc' = "returned"
    /\ UNCHANGED << castFixed, cs_i, cs_ptr, cs_null_deref, cs_elided, cs_reported >>
    /\ UNCHANGED otherThanCast

NextCast ==
    \/ Cast_Downcast
    \/ Cast_PrintTag
    \/ Cast_Check
    \/ Cast_CallSampleBinned

SpecCast == InitCast /\ [][NextCast]_vars

\* ------------------------------------------------------------ claims on Spec
InOptimize == pc \in { "diffhess", "searchdir", "loop", "linesearch", "ls_loop", "ls_update" }

\* the Kantorovich test passed for the stored iterate and its estimator is small
KantorovichSuccess == RLess(q, one) /\ RLeq(errorestimator, settings.tolerance)

\* steps Optimize() can still take before it returns: a pass of the main loop is
\* at most PassLen steps (the loop test, the line search with its back-tracking
\* steps, the update of w, the assembly of F and DF, the decisions)
PassLen == settings.max_backtrackings + 6
Rank ==
    LET left == (settings.max_iter - iter) * PassLen
    IN  CASE pc = "optimize"   -> (settings.max_iter + 1) * PassLen + 3
          [] pc = "diffhess"   -> left + 3
          [] pc = "searchdir"  -> left + 2
          [] pc = "loop"       -> left + 1
          [] pc = "linesearch" -> left + PassLen
          [] pc = "ls_loop"    -> left + PassLen - 1 - backtrackings
          [] pc = "ls_update"  -> left + 4
          [] OTHER             -> 0

\* C1: every call of Optimize() terminates (each of its steps lowers Rank, which
\* stays >= 0), takes at most max_iter passes of its main loop (0 <= iter <=
\* max_iter throughout, one line search per pass), and with max_iter = 0 takes
\* no line-search step.
C1_OptimizeTerminatesWithinMaxIter ==
    /\ [] ( /\ 0 <= iter /\ iter <= settings.max_iter
            /\ passes <= settings.max_iter
            /\ (pc = "returned" => passes = iter)
            /\ (settings.max_iter = 0 =>
                    passes = 0 /\ pc \notin {"linesearch", "ls_loop", "ls_update"}) )
    /\ [][ (pc = "optimize" \/ InOptimize) => (Rank' < Rank /\ Rank' >= 0) ]_vars

\* C1 witness: a call returned after taking max_iter > 0 passes
C1_Witness == pc = "returned" /\ settings.max_iter > 0 /\ passes = settings.max_iter

\* C2: when Optimize() returns, (a) the Kantorovich test passed with the estimator
\* <= tolerance, or (b) continue is false with the residual <= give_up_tolerance,
\* or (c) iter = max_iter.
C2_ReturnReasons ==
    pc = "returned" =>
        \/ KantorovichSuccess
        \/ (~continueQ /\ RLeq(residual, settings.give_up_tolerance))
        \/ iter = settings.max_iter

\* C2 witness: a return before the cap because the residual is <= give_up_tolerance
C2_Witness ==
    /\ pc = "returned"
    /\ iter < settings.max_iter
    /\ ~KantorovichSuccess
    /\ ~continueQ
    /\ RLeq(residual, settings.give_up_tolerance)

\* C3: on return of any call, succeededQ is true only if the Kantorovich test
\* passed for the final iterate of that call with the estimator <= tolerance.
C3_SucceededOnlyIfThisCallConverged ==
    (pc = "returned" /\ succeededQ) => KantorovichSuccess

\* C4: when the solver reports success on return, the stored residual is at most
\* max(tolerance, give_up_tolerance).
C4_ClosureOnSuccess ==
    (pc = "returned" /\ succeededQ) =>
        RLeq(residual, RMax(settings.tolerance, settings.give_up_tolerance))

\* beside C4: the bound holds whenever the final decision of the call itself is
\* the Kantorovich success
C4_ClosureOnKantorovichSuccess ==
    (pc = "returned" /\ KantorovichSuccess) =>
        RLeq(residual, RMax(settings.tolerance, settings.give_up_tolerance))

\* C5: a sample whose Optimize() left the loop at the iteration cap with continue
\* still true has iter = max_iter, and the driver wrote its last iterate: the w
\* after max_iter updates and the y shifted by that w.
C5_CappedSampleReportedAndWritten ==
    \A j \in Samples :
        (j < k /\ exits[j].capped) =>
            /\ exits[j].iter = settings.max_iter
            /\ w_out[j] = [s |-> j, ver |-> settings.max_iter]
            /\ y_out[j] = Shift(j, w_out[j])

\* C5 witness: a written sample that hit a cap max_iter > 0
C5_Witness ==
    \E j \in Samples : j < k /\ exits[j].capped /\ settings.max_iter > 0
                       /\ w_out[j].ver = settings.max_iter

\* C6 as claimed: in every iteration whose line search evaluated the potential,
\* the tau that updates w satisfies the Armijo predicate.
C6_EveryStepSatisfiesArmijo ==
    (pc = "ls_update" /\ linesearchQ) => Armijo(phi_tau, tau, Dphi_0)

\* C6 amended: when line search is enabled and the back-tracking loop stops with
\* fewer than max_backtrackings steps taken, the tau that updates w satisfies the
\* Armijo predicate.
C6_AcceptedStepSatisfiesArmijo ==
    (pc = "ls_update" /\ linesearchQ /\ backtrackings < settings.max_backtrackings)
        => Armijo(phi_tau, tau, Dphi_0)

\* C6 witness: a step accepted after one back-tracking step, below the cap
C6_Witness ==
    /\ pc = "ls_update"
    /\ linesearchQ
    /\ backtrackings = 1
    /\ backtrackings < settings.max_backtrackings
    /\ RLess(tau, one)

\* C7: with use_linesearch false no iteration evaluates the Armijo predicate or
\* back-tracks.
C7_UseLinesearchOffDisablesArmijo ==
    ~settings.use_linesearch =>
        /\ armijo_evals = 0
        /\ backtrackings = 0
        /\ pc # "ls_loop"

\* ------------------------------------------------------------ claims on SpecCtor
\* C8: right after construction from (r_in, rho_in, n, settings), EdgeLengths()
\* is r_in and Rho() is rho_in, element by element, and total_r_inv = 1 / sum r_in.
C8_ConstructorStoresRAndRho ==
    (made_by.ctor = 2 /\ made_by.fresh) =>
        /\ r = CopyBuffer(made_by.r_in)
        /\ rho = CopyBuffer(made_by.rho_in)
        /\ RMul(total_r_inv, SumTo(CopyBuffer(made_by.r_in), EdgeCount)) = one

\* beside C8: what the constructor does store
C8_ConstructorStoresRTwice ==
    (made_by.ctor = 2 /\ made_by.fresh) =>
        /\ r = CopyBuffer(made_by.r_in)
        /\ rho = CopyBuffer(made_by.r_in)
        /\ RMul(total_r_inv, SumTo(CopyBuffer(made_by.r_in), EdgeCount)) = one

\* ------------------------------------------------------------ claims on SpecBatch
AllDone == \A t \in Threads : tpc[t] = "done"

\* the thread t owns the sample index kk: floor(t S / T) <= kk < floor((t+1) S / T)
Owns(t, kk) ==
    /\ (t * sample_count) \div thread_count <= kk
    /\ kk < ((t + 1) * sample_count) \div thread_count

RECURSIVE SumOver(_, _)
\* f[0] + ... + f[n-1]
SumOver(f, n) == IF n = 0 THEN 0 ELSE SumOver(f, n - 1) + f[n - 1]

\* C9: for every S >= 0 and T >= 1 a sample index is taken up only by the thread
\* whose block [floor(tS/T), floor((t+1)S/T)) holds it and at most once; when all
\* threads are done every index in [0,S) was taken up exactly once, and the
\* repetition counts of the threads sum to S.
C9_ContiguousPartition ==
    /\ \A kk \in DOMAIN proc :
          /\ proc[kk].n <= 1
          /\ \A t \in proc[kk].by : Owns(t, kk)
    /\ AllDone =>
          /\ op # "Sample_Binned" => \A kk \in 0 .. sample_count - 1 : proc[kk].n = 1
          /\ op = "Sample_Binned" =>
                /\ SumOver(sb_local, thread_count) = sample_count
                /\ sb_global = sb_prior.moments + sample_count
          /\ op # "Sample_Binned" =>
                SumOver([t \in Threads |->
                            Cardinality({ kk \in DOMAIN proc : t \in proc[kk].by })],
                        thread_count) = sample_count

\* C9 witness: more threads than samples, all done, every sample taken up
C9_Witness ==
    /\ AllDone
    /\ op = "OptimizeBatch"
    /\ sample_count > 0
    /\ thread_count > sample_count
    /\ \A kk \in 0 .. sample_count - 1 : proc[kk].n = 1

\* C10: under every interleaving, every element of x_out, w_out, y_out,
\* K_edge_space, K_edge_quotient_space is written by at most one thread, the one
\* that owns the sample whose slice holds the element.
C10_DisjointOutputSlices ==
    \A a \in OutputArrays : \A e \in DOMAIN written[a] :
        /\ Cardinality(written[a][e]) <= 1
        /\ \A t \in written[a][e] : Owns(t, e \div SliceLen(a))

\* C10 witness: RandomClosedPolygons on several threads has filled all five arrays
C10_Witness ==
    /\ AllDone
    /\ op = "RandomClosedPolygons"
    /\ thread_count >= 2
    /\ sample_count >= thread_count
    /\ \A a \in OutputArrays : \A e \in DOMAIN written[a] : Cardinality(written[a][e]) = 1

\* where a thread is while it is inside #pragma omp critical
CriticalPhases == { "add_bins", "add_bins_store", "add_moments", "add_moments_store" }

\* C11: each thread of Sample_Binned adds its local tensors to the shared ones
\* exactly once, at the end of its block and inside the critical section (at most
\* one thread is inside, and the shared tensors change only under its hand); the
\* bins and moments written back are the caller's prior contents plus the sum of
\* the local tensors of all threads.
C11_ReduceOncePerThreadInCritical ==
    /\ [] ( /\ \A t \in Threads :
                 /\ reduced[t] <= 1
                 /\ (reduced[t] = 1 => tk[t] = k_end[t])
                 /\ ((op = "Sample_Binned" /\ tpc[t] = "done") => reduced[t] = 1)
                 /\ (tpc[t] \in CriticalPhases => lock = t)
            /\ sb_out.done =>
                 /\ sb_out.bins = sb_prior.bins + SumOver(sb_bins_local, thread_count)
                 /\ sb_out.moments = sb_prior.moments + SumOver(sb_local, thread_count) )
    /\ [][ (sb_global' # sb_global \/ sb_bins_global' # sb_bins_global) =>
              (lock # NoThread /\ tpc[lock] \in CriticalPhases) ]_vars

\* C11 witness: several threads, each with samples of its own, have reduced into
\* arrays that were not zero at entry
C11_Witness ==
    /\ op = "Sample_Binned"
    /\ sb_out.done
    /\ thread_count >= 2
    /\ sb_prior.moments > 0
    /\ \A t \in Threads : sb_local[t] >= 1 /\ reduced[t] = 1

\* the elements of the output array a that hold something
Filled(a) == \A e \in DOMAIN written[a] : written[a][e] # {}

C20_StoredShiftVectorInsideBall ==
    shift_call.name = "ReadShiftVector" =>
        /\ RLess(small_one, SquaredNorm(shift_call.w_in))
              => w_vec = ComputeShiftVector_w(x_buffer, r, total_r_inv)
        /\ ~RLess(small_one, SquaredNorm(shift_call.w_in)) => w_vec = shift_call.w_in
        /\ RLess(SquaredNorm(w_vec), one)

\* beside C20: the choice between w_in and the barycentre is as claimed, and the
\* stored w is in the closed ball
C20_StoredShiftVectorInClosedBall ==
    shift_call.name = "ReadShiftVector" =>
        /\ RLess(small_one, SquaredNorm(shift_call.w_in))
              => w_vec = ComputeShiftVector_w(x_buffer, r, total_r_inv)
        /\ ~RLess(small_one, SquaredNorm(shift_call.w_in)) => w_vec = shift_call.w_in
        /\ RLeq(SquaredNorm(w_vec), one)

\* ------------------------------------------------------------ claims on SpecBinned
\* a step of SpecBinned that is one repetition of the sampling loop
IsRepetition == rep_done' = rep_done + 1
\* ... that is the return of Sample_Binned
IsReturn == bphase = "loop" /\ bphase' = "returned"
\* ... that is a call of NormalizeBinnedSamples
IsNormalize == norm_count' = norm_count + 1

\* the bin as the claim C12 states it: floor((v - range_lo) * B / (range_hi - range_lo))
ClaimedBin(val, rg, B_) == Floor(R((val - rg.lo) * B_, rg.hi - rg.lo))

\* what a repetition does to bins if the bin is the one C12 states
BinnedAsClaimed ==
    \A e \in DOMAIN bins_local :
        LET w_ == e \div (FunCount * bin_count_)
            i  == (e \div bin_count_) % FunCount
            b  == e % bin_count_
        IN  bins_local'[e] =
                IF ClaimedBin(FunValue(i, smp'.val), ranges, bin_count_) = b
                THEN RAdd(bins_local[e], Values(smp'.K, smp'.K_quot)[w_ + 1])
                ELSE bins_local[e]

\* C12: for each sample and functional i with value v, with bin =
\* floor((v - range_lo) * B / (range_hi - range_lo)): if 0 <= bin < B exactly
\* {1, kappa, kappa*chi} is added to bins[.,i,bin] and no other bin entry changes;
\* if bin is outside [0,B), v = range_hi included, no bin entry changes.
C12_BinIsFloorOfScaledValue ==
    [][ (IsRepetition /\ ranges.hi # ranges.lo) => BinnedAsClaimed ]_vars

\* beside C12: the same, where the double product does not round below the
\* exact quotient
C12_BinIsFloorWhereProductExact ==
    [][ ( /\ IsRepetition
          /\ ranges.hi # ranges.lo
          /\ \A i \in Funs : << bin_count_, ranges.hi - ranges.lo,
                                FunValue(i, smp'.val) - ranges.lo >> \notin RoundedBelow )
        => BinnedAsClaimed ]_vars

\* what a repetition does to the moments tensor if exactly the entries j < M
\* receive the weighted powers
MomentsAsClaimed ==
    \A e \in DOMAIN moments_local :
        LET mc == MomentCount(moment_count_)
            w_ == e \div (FunCount * mc)
            i  == (e \div mc) % FunCount
            j  == e % mc
        IN  moments_local'[e] =
                IF j < moment_count_
                THEN RAdd(moments_local[e],
                          RMul(Values(smp'.K, smp'.K_quot)[w_ + 1],
                               R(Pow(FunValue(i, smp'.val), j), 1)))
                ELSE moments_local[e]

\* what the return does to the caller's moments if the layout has M entries per
\* (weight, function) and nothing outside the caller's array is touched
MomentsReturnedAsClaimed ==
    /\ oob' = {}
    /\ \A w_ \in WeightRows, i \in Funs, j \in 0 .. moment_count_ - 1 :
          moments_out'[TensorIdx(w_, i, j, moment_count_)] =
              RAdd(moments_out[TensorIdx(w_, i, j, moment_count_)],
                   moments_local[TensorIdx(w_, i, j, MomentCount(moment_count_))])

\* C13: for every sample and functional i exactly the entries moments[w,i,j],
\* j in [0,M), receive {v^j, kappa v^j, kappa chi v^j}, and the call touches the
\* moments array only within the layout [weight, function, moment] with M entries
\* per (weight, function), for every M >= 1 and B >= 1.
C13_MomentsWithinCallerLayout ==
    [][ (IsRepetition => MomentsAsClaimed) /\ (IsReturn => MomentsReturnedAsClaimed) ]_vars

\* beside C13: the same for M >= 3
C13_MomentsWithinLayoutFromThree ==
    [][ moment_count_ >= 3 =>
          (IsRepetition => MomentsAsClaimed) /\ (IsReturn => MomentsReturnedAsClaimed) ]_vars

RECURSIVE BinSumTo(_, _, _)
\* b[row * B] + ... + b[row * B + n - 1]
BinSumTo(b, row, n) ==
    IF n = 0 THEN zero ELSE RAdd(BinSumTo(b, row, n - 1), b[row * bin_count_ + n - 1])

Rows == 0 .. 3 * FunCount - 1

\* every sample fell into a bin of the functional of the row
AllInRange(row) == BinSumTo(bins_local, row % FunCount, bin_count_) = R(rep_done, 1)

\* what the first NormalizeBinnedSamples does, as C14 states it
NormalizedAsClaimed ==
    \A row \in Rows :
        /\ moments_out'[row * moment_count_] = one
        /\ \A j \in 0 .. moment_count_ - 1 :
              moments_out'[row * moment_count_ + j] =
                  RMul(RDiv(one, moments_out[row * moment_count_]),
                       moments_out[row * moment_count_ + j])
        /\ \A b \in 0 .. bin_count_ - 1 :
              bins_out'[row * bin_count_ + b] =
                  RMul(RDiv(one, moments_out[row * moment_count_]),
                       bins_out[row * bin_count_ + b])
        /\ RLeq(BinSumTo(bins_out', row, bin_count_), one)
        /\ AllInRange(row) => BinSumTo(bins_out', row, bin_count_) = one

\* C14: after NormalizeBinnedSamples on the output of Sample_Binned with the same
\* B, M, F, for every weight row and functional moments[i,j,0] = 1, bins and
\* moments of the row were scaled by 1 / (old moments[i,j,0]), sum_b bins[i,j,b]
\* <= 1 with equality when all samples fell in range; a second call changes nothing.
C14_NormalizedToUnitMass ==
    [][ /\ (IsNormalize /\ norm_count = 0) => NormalizedAsClaimed
        /\ (IsNormalize /\ norm_count = 1) =>
              (bins_out' = bins_out /\ moments_out' = moments_out) ]_vars

\* beside C14: the same for M >= 3 and at least one sample
C14_NormalizedFromThreeMoments ==
    [][ (moment_count_ >= 3 /\ rep_done >= 1) =>
          /\ (IsNormalize /\ norm_count = 0) => NormalizedAsClaimed
          /\ (IsNormalize /\ norm_count = 1) =>
                (bins_out' = bins_out /\ moments_out' = moments_out) ]_vars

\* C16: Sample_Binned with range_hi <= range_lo for a functional is rejected
\* before any sample is drawn and leaves bins_out and moments_out unchanged.
C16_InvalidRangeRejectedAtEntry ==
    ranges.hi <= ranges.lo =>
        /\ rep_done = 0
        /\ bphase = "returned" =>
              /\ bins_out = ZeroTensor(bin_count_)
              /\ moments_out = ZeroTensor(moment_count_)

\* C19: a sample whose Optimize() returned without success is recorded with
\* kappa = 0 and kappa*chi = 0 and adds nothing to the rows 1 and 2 of bins and
\* moments.
C19_FailedSampleHasZeroWeight ==
    [][ (IsRepetition /\ smp'.outcome # "converged") =>
          /\ smp'.K = zero
          /\ smp'.K_quot = zero
          /\ \A e \in DOMAIN moments_local :
                e \div (FunCount * MomentCount(moment_count_)) >= 1
                    => moments_local'[e] = moments_local[e]
          /\ \A e \in DOMAIN bins_local :
                e \div (FunCount * BinCount(bin_count_)) >= 1
                    => bins_local'[e] = bins_local[e] ]_vars

\* ------------------------------------------------------------ claims on SpecRng
\* C15: for a fixed root seed and thread count, two runs of the same batch
\* sampling operation draw the same random directions per sample index and
\* produce the same outputs.
C15_SameSeedSameOutputs ==
    rs_run = 3 => rs_out[1] = rs_out[2]

\* ------------------------------------------------------------ claims on SpecChol
\* C17: whenever a pivot of Cholesky() is <= 0 the factorisation fails and no
\* search direction is computed from the failed factor.
C17_NoDirectionFromFailedFactor ==
    chol_failed => chol_u \notin { "finite", "nonfinite" }

\* beside C17: with every pivot > 0 the factor and the direction are finite
C17_FiniteDirectionFromPositivePivots ==
    (chol_u \in { "finite", "nonfinite" } /\ ~chol_failed) => chol_u = "finite"

\* ------------------------------------------------------------ claims on Spec, the decisions and the line search
IsSearchDirection == pc = "searchdir" /\ pc' = "loop"

NearCritical == RLess(residual, RMul(R(100, 1), settings.tolerance))

\* C21: when residual < 100 tolerance, q = 4 residual / lambda_min^2; with q < 1
\* the estimator is lambda_min q / 2, the line search is off, continue holds iff
\* estimator > tolerance and converged iff estimator <= tolerance; with q >= 1
\* the estimator is infinity, the line search is on iff Armijo_slope_factor > 0,
\* converged is left as it was and continue holds iff residual > give_up_tolerance.
C21_KantorovichRegimeDecision ==
    [][ (IsSearchDirection /\ NearCritical) =>
          /\ q' = RDiv(RMul(R(4, 1), residual), RMul(lambda_min', lambda_min'))
          /\ IF RLess(q', R(1, 1))
             THEN /\ errorestimator' = RDiv(RMul(lambda_min', q'), R(2, 1))
                  /\ ~linesearchQ'
                  /\ continueQ' <=> RLess(settings.tolerance, errorestimator')
                  /\ succeededQ' <=> RLeq(errorestimator', settings.tolerance)
             ELSE /\ errorestimator' = infty
                  /\ linesearchQ' <=> RLess(zero, settings.Armijo_slope_factor)
                  /\ succeededQ' = succeededQ
                  /\ continueQ' <=> RLess(settings.give_up_tolerance, residual)
      ]_vars

\* C21: a decision with q < 1 whose estimator is above the tolerance has been taken
C21_Witness ==
    /\ pc = "loop"
    /\ NearCritical
    /\ RLess(q, R(1, 1))
    /\ ~linesearchQ
    /\ continueQ
    /\ ~succeededQ

\* C22: when residual >= 100 tolerance the solver continues and the next step is
\* taken with the line search on, whatever give_up_tolerance and
\* Armijo_slope_factor are.
C22_FarFromCriticalContinuesWithLineSearch ==
    [][ (IsSearchDirection /\ ~NearCritical) => (continueQ' /\ linesearchQ') ]_vars

\* beside C22: far from a critical point, continue holds iff the residual is above
\* give_up_tolerance and tolerance, the line search is on iff Armijo_slope_factor > 0
C22_FarFromCriticalDecision ==
    [][ (IsSearchDirection /\ ~NearCritical) =>
          /\ continueQ' <=> ( RLess(settings.give_up_tolerance, residual)
                              /\ RLess(settings.tolerance, residual) )
          /\ linesearchQ' <=> RLess(zero, settings.Armijo_slope_factor)
      ]_vars

InLineSearch == pc \in { "linesearch", "ls_loop", "ls_update" }

\* the step size a back-tracking step moves to, as the claim gives it
ClaimedStepSize ==
    LET gamma == settings.Armijo_shrink_factor
        sigma == settings.Armijo_slope_factor
    IN  RMax( RMul(gamma, tau),
              RDiv( RNeg(RMul(RMul(RMul(sigma, tau), tau), Dphi_0)),
                    RMul(R(2, 1), RSub(phi_tau, RMul(tau, Dphi_0))) ) )

\* C23: in each Newton iteration the line search starts at tau = 1, takes at most
\* max_backtrackings back-tracking steps, takes none once the Armijo predicate
\* holds, every back-tracking step sets
\* tau <- max( gamma tau, -sigma tau^2 Dphi / (2 (Phi(z) - tau Dphi)) ),
\* and w is updated once per iteration, after the loop.
C23_LineSearchSchedule ==
    /\ [](backtrackings <= settings.max_backtrackings)
    /\ []( (pc \in { "diffhess", "searchdir", "loop", "returned" } => w.ver = iter)
           /\ (InLineSearch => w.ver = iter - 1) )
    /\ [][ /\ (pc = "linesearch" /\ pc' # "linesearch") => tau' = R(1, 1)
           /\ (pc = "ls_loop" /\ pc' = "ls_loop") =>
                 /\ ~ArmijoQ
                 /\ backtrackings < settings.max_backtrackings
                 /\ backtrackings' = backtrackings + 1
                 /\ tau' = ClaimedStepSize
           /\ (pc = "ls_loop" /\ pc' = "ls_update") =>
                 (ArmijoQ \/ backtrackings = settings.max_backtrackings)
           /\ (InLineSearch /\ w' # w) =>
                 (pc = "ls_update" /\ pc' = "diffhess" /\ w'.ver = w.ver + 1)
      ]_vars

\* C23: a line search has stopped after one back-tracking step, at the step size
\* of the quadratic fit, with the Armijo predicate true
C23_Witness ==
    /\ pc = "ls_update"
    /\ linesearchQ
    /\ backtrackings = 1
    /\ ArmijoQ
    /\ tau = R(1, 3)
    /\ settings.max_backtrackings > 1

\* C24: when the line search has used up max_backtrackings without the Armijo
\* predicate, w is updated with the step size whose potential is the smallest of
\* all step sizes tried in the iteration.
C24_ExhaustedLineSearchTakesBestStep ==
    (pc = "ls_update" /\ tried # {} /\ ~ArmijoQ) =>
        \A t \in tried : RLeq(phi_tau, t.phi)

\* beside C24: the update is taken with the step size tried last
C24_ExhaustedLineSearchTakesLastStep ==
    (pc = "ls_update" /\ tried # {}) => [tau |-> tau, phi |-> phi_tau] \in tried

\* C28: after every line-search step and at the return of Optimize(), y is the
\* shift of the current x by the current w; at the return, and whenever the
\* decisions are taken, F, DF and the residual are those of that y.
C28_ShiftedStateConsistent ==
    /\ pc \in { "diffhess", "searchdir", "loop", "returned" } => y = [x |-> x, w |-> w]
    /\ pc \in { "searchdir", "loop", "returned" } => FH = y

\* C28: Optimize() has returned after w was updated
C28_Witness ==
    /\ pc = "returned"
    /\ w.ver >= 1
    /\ y = [x |-> x, w |-> w]
    /\ FH = y

\* ------------------------------------------------------------ claims on SpecRng, the positions
\* C29: RandomSphericalPoints fills the same positions for every thread count:
\* with thread_count = 1 as with thread_count > 1 each of the
\* sample_count * edge_count vectors [sample l, edge k] is written exactly once.
C29_EveryPositionWrittenOnce ==
    rs_run = 3 => \A run \in 1 .. 2 : \A pos \in RsPositions : rs_written[run][pos] = 1

\* beside C29: with thread_count > 1 every position is written exactly once; with
\* thread_count = 1 exactly the positions of sample 0 are
C29_PositionsWrittenByBranch ==
    rs_run = 3 => \A run \in 1 .. 2 : \A pos \in RsPositions :
        rs_written[run][pos] = IF rs_threads = 1 /\ pos[1] # 0 THEN 0 ELSE 1

\* ------------------------------------------------------------ claims on SpecSigma
\* sum over the edges 0 .. n - 1 of rho_k^2 y_k[i] y_k[j]
RECURSIVE SigmaSumTo(_, _)
SigmaSumTo(ji, n) ==
    IF n = 0 THEN 0 ELSE SigmaSumTo(ji, n - 1) + EdgeTerm(n - 1, ji)

\* C25: for d >= 3 the matrix from which the correction is derived equals
\* Sigma = sum_k rho_k^2 y_k y_k^T on the triangle the routine fills, every edge,
\* edge 0 too, contributing exactly once.
C25_SigmaCountsEveryEdgeOnce ==
    sg_phase = "done" => \A ji \in LowerEntries : sg_A[ji] = SigmaSumTo(ji, EdgeCount)

\* beside C25: the matrix is Sigma with the term of edge 0 added once more
C25_SigmaCountsEdgeZeroTwice ==
    sg_phase = "done" =>
        \A ji \in LowerEntries : sg_A[ji] = SigmaSumTo(ji, EdgeCount) + EdgeTerm(0, ji)

\* ------------------------------------------------------------ claims on SpecEig
\* C26: lambda_min of the Kantorovich test is computed from the Hessian DF of the
\* current iterate only: two solver states with the same DF and different
\* contents of the scratch matrix A get the same lambda_min, for d = 2, d = 3 and
\* general d.
C26_LambdaMinDependsOnHessianOnly ==
    ev_done = EigStates => ev_lam[1] = ev_lam[2]

\* beside C26: the two values agree for d = 2 and for general d, and for d = 3
\* where DF is diagonal or the two scratch matrices agree off the diagonal
C26_LambdaMinOutsideTrigonometricBranch ==
    ( /\ ev_done = EigStates
      /\ \/ ev_dim # 3
         \/ \A ij \in EigUpper(ev_dim) : ij[1] # ij[2] => ev_DF[ij] = 0
         \/ \A ij \in EigUpper(ev_dim) : ij[1] # ij[2] => ev_A[1][ij] = ev_A[2][ij] )
    => ev_lam[1] = ev_lam[2]

\* ------------------------------------------------------------ claims on SpecFlow
\* y, p and the weights of W all belong to the sample k
CurrentSample(k_) ==
    /\ fl_x = k_
    /\ fl_w.s = k_
    /\ fl_y = [x |-> k_, w |-> fl_w]
    /\ fl_p = fl_y
    /\ fl_K = [x |-> k_, w |-> fl_w, y |-> fl_y]
    /\ fl_chi = fl_y

\* C27: per sample every worker of Sample_Binned draws the directions, computes
\* the initial w, optimizes, computes p, then both weights, then evaluates the
\* functionals and accumulates: no functional is evaluated before p and both
\* weights have been recomputed for the current sample, and no weight recorded
\* for sample k was computed from the w, y of another sample.
C27_SampleDataFlow ==
    /\ fl_pc \in { "functionals", "accumulate" } => CurrentSample(fl_k)
    /\ \A rec \in fl_rec :
         /\ rec.val.y.x = rec.sample
         /\ rec.val.p = rec.val.y
         /\ rec.K.x = rec.sample
         /\ rec.K.w.s = rec.sample
         /\ rec.K.y = [x |-> rec.sample, w |-> rec.K.w]
         /\ rec.val.y = rec.K.y
         /\ rec.K_quot.K = rec.K
         /\ rec.K_quot.chi = rec.K.y

\* C27: the second sample of a worker has been accumulated for two functionals
\* after an Optimize() that updated w
C27_Witness ==
    /\ fl_pc = "functionals"
    /\ fl_k = 1
    /\ fl_i = 2
    /\ fl_w.ver >= 1
    /\ \E rec \in fl_rec : rec.sample = 1 /\ rec.fun = 1 /\ rec.K.w.ver >= 1

\* ------------------------------------------------------------ claims on SpecCast
SomeDowncastFails == \E i \in 1 .. Len(cs_list) : ~cs_list[i]

\* C30: if a random variable of F_list fails to downcast, the call reports the
\* error and returns without drawing a sample and without modifying bins_out or
\* moments_out, and the null result of the failed downcast is never dereferenced.
C30_FailedDowncastReportedBeforeUse ==
    /\ ~cs_null_deref
    /\ ~cs_called \/ ~SomeDowncastFails
    /\ (cs_pc = "returned" /\ SomeDowncastFails) => cs_reported

\* beside C30: when every downcast succeeds no null pointer is dereferenced,
\* nothing is reported and the overload that samples is called
C30_AllDowncastsSucceed ==
    ~SomeDowncastFails =>
        /\ ~cs_null_deref
        /\ ~cs_reported
        /\ cs_pc = "returned" => cs_called

====
